---------------------------- MODULE Spec2Model ----------------------------
(***************************************************************************)
(* Policy & Coordination Core of the hybrid LLM platform: the permission   *)
(* manager, the guardrail analyzer, the audit logger and the security      *)
(* engine's lockdown state machine, as implemented in                      *)
(* crates/security-engine and crates/common; and the router, the message   *)
(* bus and the orchestrator of orchestrator/, the pool and the load        *)
(* balancer of crates/llm-pool.                                            *)
(*                                                                         *)
(* Strings are TLA+ strings; a character is a string of length 1.          *)
(***************************************************************************)
EXTENDS Integers, Sequences, FiniteSets, TLC

VARIABLES
    global_scope,     \* PermissionManager.global_scope
    llm_scopes,       \* PermissionManager.llm_scopes   (HashMap: id -> scope)
    failed_requests,  \* PermissionManager.failed_requests (HashMap: id -> usize)
    rules,            \* Guardrails.rules: the rules' names, in order
    logs,             \* AuditLogger.logs
    lockdown_state,   \* SecurityEngineImpl.lockdown_state
    lockdown_writer,  \* the task holding the write guard of lockdown_state
    pc,               \* per task: where it is in the call it is running
    call,             \* per task: the call it is running, with its locals
    ret,              \* per task: what its latest completed call returned
    budget,           \* calls the callers may still start
    hist,             \* history, read by the properties only
    last,             \* what the latest call on a component of its own returned
    llm_registry,     \* Router.llm_registry (HashMap: id -> LLMInstance)
    counter,          \* LoadBalancer.counter
    sender,           \* MessageBus.sender: the broadcast channel it is the handle of
    providers,        \* LLMPool.providers (DashMap: id -> provider's instance)
    capability_index, \* LLMPool.capability_index (DashMap: capability -> ids)
    orch_lockdown_state, \* Orchestrator.lockdown_state
    trace             \* the completed calls on a component of its own, in order

pmVars  == <<global_scope, llm_scopes, failed_requests>>
engVars == <<lockdown_state, lockdown_writer, pc, call, ret, budget, hist>>
platformVars == <<llm_registry, counter, sender, providers, capability_index,
                  orch_lockdown_state, trace>>
vars == <<global_scope, llm_scopes, failed_requests, rules, logs, lockdown_state,
          lockdown_writer, pc, call, ret, budget, hist, last, llm_registry, counter,
          sender, providers, capability_index, orch_lockdown_state, trace>>

(***************************************************************************)
(* Bounds of the model (not program constants).                            *)
(***************************************************************************)
\* calls started by the concurrent callers of the engine
MaxCalls == 3
\* calls beyond the escalation threshold started by the escalation scenario
MaxOver == 1
\* denials counted per actor by the permission manager on its own
MaxTracked == 2

(***************************************************************************)
(* String helpers: what the Rust standard library calls used by the code   *)
(* compute.                                                                *)
(***************************************************************************)
CharAt(s, i) == SubSeq(s, i, i)

\* str::starts_with
StartsWith(s, prefix) ==
    /\ Len(prefix) <= Len(s)
    /\ SubSeq(s, 1, Len(prefix)) = prefix

\* str::ends_with
EndsWith(s, suffix) ==
    /\ Len(suffix) <= Len(s)
    /\ SubSeq(s, Len(s) - Len(suffix) + 1, Len(s)) = suffix

\* str::contains: some window of s equals sub (the empty string is in every string)
Contains(s, sub) ==
    \E i \in 0..(Len(s) - Len(sub)) : SubSeq(s, i + 1, i + Len(sub)) = sub

\* char::is_whitespace on the characters the inputs use
IsWhitespace(c) == c \in {" ", "\t", "\n", "\r"}

\* the position of the first character at or after i for which the test is ok,
\* Len(s) + 1 when there is none
RECURSIVE SkipWhile(_, _, _)
SkipWhile(s, i, ws) ==
    IF i > Len(s) THEN i
    ELSE IF IsWhitespace(CharAt(s, i)) = ws THEN SkipWhile(s, i + 1, ws)
    ELSE i

\* command.split_whitespace().next().unwrap_or("")
FirstToken(command) ==
    LET b == SkipWhile(command, 1, TRUE)
        e == SkipWhile(command, b, FALSE)
    IN  IF b > Len(command) THEN "" ELSE SubSeq(command, b, e - 1)

(***************************************************************************)
(* common::types: PermissionScope and its default                          *)
(***************************************************************************)
DefaultScope ==
    [ file_system |->
        [ read_paths    |-> <<"/home/*/downloads/*", "/rag/*">>,
          write_paths   |-> <<"/home/*/downloads/*">>,
          execute_paths |-> <<>> ],
      network |->
        [ inbound |-> TRUE, outbound |-> TRUE, require_approval |-> <<"*">> ],
      commands |->
        [ whitelist |-> <<"git", "npm", "python", "cargo", "ls", "cat">>,
          blacklist |-> <<"rm -rf /", "sudo", "dd", "mkfs">>,
          require_explanation |-> TRUE ],
      resources |->
        [ max_cpu_percent |-> 80, max_memory_gb |-> 8, max_disk_gb |-> 50 ] ]

\* common::messages::PermissionType constructors
FileRead(p)    == [type |-> "FileRead", path |-> p]
FileWrite(p)   == [type |-> "FileWrite", path |-> p]
FileExecute(p) == [type |-> "FileExecute", path |-> p]
Command(c)     == [type |-> "Command", command |-> c]
NetworkAccess(u) == [type |-> "NetworkAccess", url |-> u]
ResourceIncrease(r, n) == [type |-> "ResourceIncrease", resource |-> r, amount |-> n]

(***************************************************************************)
(* PermissionManager: the pure checks                                      *)
(***************************************************************************)
\* a faulty variant: the text before "/*" must be followed by a path separator
path_matches_segment(pattern, path) ==
    IF EndsWith(pattern, "/*")
    THEN StartsWith(path, SubSeq(pattern, 1, Len(pattern) - 1))
    ELSE IF Contains(pattern, "*") THEN TRUE
    ELSE pattern = path

path_matches(pattern, path) ==
    IF EndsWith(pattern, "/*")
    THEN StartsWith(path, SubSeq(pattern, 1, Len(pattern) - 2))
    ELSE IF Contains(pattern, "*") THEN TRUE
    ELSE pattern = path

check_file_access(allowed_paths, path) ==
    \E i \in 1..Len(allowed_paths) : path_matches(allowed_paths[i], path)

\* a faulty variant: the whitelist decides before the blacklist is looked at
check_command_whitelist_first(cmd_perms, command) ==
    LET binary == FirstToken(command)
    IN  \/ \E i \in 1..Len(cmd_perms.whitelist) : binary = cmd_perms.whitelist[i]
        \/ FALSE

check_command(cmd_perms, command) ==
    LET binary == FirstToken(command)
    IN  IF \E i \in 1..Len(cmd_perms.blacklist) :
               Contains(command, cmd_perms.blacklist[i])
        THEN FALSE
        ELSE \E i \in 1..Len(cmd_perms.whitelist) : binary = cmd_perms.whitelist[i]

check_resource_increase(limits, resource, requested) ==
    CASE resource = "cpu"    -> requested <= limits.max_cpu_percent
      [] resource = "memory" -> requested <= limits.max_memory_gb
      [] resource = "disk"   -> requested <= limits.max_disk_gb
      [] OTHER               -> FALSE

\* a faulty variant: a network request is refused while a pattern of
\* require_approval is there to ask for approval
granted_by_approval(scope, permission) ==
    CASE permission.type = "FileRead" ->
            check_file_access(scope.file_system.read_paths, permission.path)
      [] permission.type = "FileWrite" ->
            check_file_access(scope.file_system.write_paths, permission.path)
      [] permission.type = "FileExecute" ->
            check_file_access(scope.file_system.execute_paths, permission.path)
      [] permission.type = "Command" ->
            check_command(scope.commands, permission.command)
      [] permission.type = "NetworkAccess" ->
            /\ scope.network.outbound \/ scope.network.inbound
            /\ scope.network.require_approval = <<>>
      [] permission.type = "ResourceIncrease" ->
            check_resource_increase(scope.resources, permission.resource,
                                    permission.amount)

\* the match of PermissionManager::check_permission
granted_by(scope, permission) ==
    CASE permission.type = "FileRead" ->
            check_file_access(scope.file_system.read_paths, permission.path)
      [] permission.type = "FileWrite" ->
            check_file_access(scope.file_system.write_paths, permission.path)
      [] permission.type = "FileExecute" ->
            check_file_access(scope.file_system.execute_paths, permission.path)
      [] permission.type = "Command" ->
            check_command(scope.commands, permission.command)
      [] permission.type = "NetworkAccess" ->
            scope.network.outbound \/ scope.network.inbound
      [] permission.type = "ResourceIncrease" ->
            check_resource_increase(scope.resources, permission.resource,
                                    permission.amount)

(***************************************************************************)
(* PermissionManager: state and operations                                 *)
(***************************************************************************)
EmptyMap == [k \in {} |-> FALSE]

MapPut(m, k, v) == [x \in (DOMAIN m) \cup {k} |-> IF x = k THEN v ELSE m[x]]
MapRemove(m, k) == [x \in (DOMAIN m) \ {k} |-> m[x]]

\* a faulty variant: the global scope is used whoever asks
get_scope_global(llm_id) == global_scope

\* PermissionManager::get_scope
get_scope(llm_id) ==
    IF llm_id \in DOMAIN llm_scopes THEN llm_scopes[llm_id] ELSE global_scope

\* the sum of m over keys
RECURSIVE SumOver(_, _)
SumOver(m, keys) ==
    IF keys = {} THEN 0
    ELSE LET k == CHOOSE x \in keys : TRUE
         IN  m[k] + SumOver(m, keys \ {k})

\* a faulty variant: the failed requests of all actors are counted together
get_failed_count_total(llm_id) == SumOver(failed_requests, DOMAIN failed_requests)

\* PermissionManager::get_failed_count
get_failed_count(llm_id) ==
    IF llm_id \in DOMAIN failed_requests THEN failed_requests[llm_id] ELSE 0

\* PermissionManager::track_failed_request: the map after the call
track_failed_request(llm_id) ==
    MapPut(failed_requests, llm_id, get_failed_count(llm_id) + 1)

(***************************************************************************)
(* Guardrails: the regex crate's is_match, on the constructs the rules use *)
(*                                                                         *)
(* A pattern is a tree: lit (a literal string), cls (one character of a    *)
(* set), any (. : every character but a line feed), wordb (\b), seq, alt,  *)
(* star.  Ends(r, s, i) is the set of positions at which a match of r that *)
(* starts at position i of s may end (the position after its last          *)
(* character).                                                             *)
(***************************************************************************)
RLit(l)  == [t |-> "lit", s |-> l]
RCls(cs) == [t |-> "cls", cs |-> cs]
AnyChar == [t |-> "any"]
WordB   == [t |-> "wordb"]
RSeq(rs) == [t |-> "seq", rs |-> rs]
RAlt(rs) == [t |-> "alt", rs |-> rs]
RStar(r) == [t |-> "star", r |-> r]
RPlus(r) == RSeq(<<r, RStar(r)>>)
ROpt(r)  == RAlt(<<r, RLit("")>>)

\* \s
SpaceChars == {" ", "\t", "\n", "\r", "\f"}

\* \w
WordChars ==
    { "a", "b", "c", "d", "e", "f", "g", "h", "i", "j", "k", "l", "m",
      "n", "o", "p", "q", "r", "s", "t", "u", "v", "w", "x", "y", "z",
      "A", "B", "C", "D", "E", "F", "G", "H", "I", "J", "K", "L", "M",
      "N", "O", "P", "Q", "R", "S", "T", "U", "V", "W", "X", "Y", "Z",
      "0", "1", "2", "3", "4", "5", "6", "7", "8", "9", "_" }

IsWordAt(s, i) == i >= 1 /\ i <= Len(s) /\ CharAt(s, i) \in WordChars

RECURSIVE Ends(_, _, _)
RECURSIVE SeqEnds(_, _, _, _)
RECURSIVE StarEnds(_, _, _, _)

\* the ends of rs[k..] started at any position of from
SeqEnds(rs, k, s, from) ==
    IF k > Len(rs) THEN from
    ELSE SeqEnds(rs, k + 1, s, UNION {Ends(rs[k], s, i) : i \in from})

\* the ends of r* : the positions reachable from frontier by matches of r
StarEnds(r, s, frontier, seen) ==
    IF frontier = {} THEN seen
    ELSE LET next == UNION {Ends(r, s, i) : i \in frontier}
         IN  StarEnds(r, s, next \ seen, seen \cup next)

Ends(r, s, i) ==
    CASE r.t = "lit" ->
            IF i + Len(r.s) - 1 <= Len(s) /\ SubSeq(s, i, i + Len(r.s) - 1) = r.s
            THEN {i + Len(r.s)} ELSE {}
      [] r.t = "cls" ->
            IF i <= Len(s) /\ CharAt(s, i) \in r.cs THEN {i + 1} ELSE {}
      [] r.t = "any" ->
            IF i <= Len(s) /\ CharAt(s, i) # "\n" THEN {i + 1} ELSE {}
      [] r.t = "wordb" ->
            IF IsWordAt(s, i - 1) # IsWordAt(s, i) THEN {i} ELSE {}
      [] r.t = "seq" -> SeqEnds(r.rs, 1, s, {i})
      [] r.t = "alt" -> UNION {Ends(r.rs[k], s, i) : k \in 1..Len(r.rs)}
      [] r.t = "star" -> StarEnds(r.r, s, {i}, {i})

\* Regex::is_match: the pattern matches somewhere in the text
is_match(pattern, text) ==
    \E i \in 1..(Len(text) + 1) : Ends(pattern, text, i) # {}

(***************************************************************************)
(* Guardrails: rules and analyze_command                                   *)
(***************************************************************************)
\* RiskLevel as u8
RiskOrd(level) ==
    CASE level = "Low" -> 0
      [] level = "Medium" -> 1
      [] level = "High" -> 2
      [] level = "Critical" -> 3

default_rules ==
    << [ name |-> "dangerous_rm",
         \* rm\s+(-rf?|--recursive|--force).*(/|\*|\$HOME)
         pattern |-> RSeq(<< RLit("rm"), RPlus(RCls(SpaceChars)),
                           RAlt(<< RSeq(<<RLit("-r"), ROpt(RLit("f"))>>),
                                  RLit("--recursive"), RLit("--force") >>),
                           RStar(AnyChar),
                           RAlt(<<RLit("/"), RLit("*"), RLit("$HOME")>>) >>),
         risk_level |-> "Critical",
         description |-> "Dangerous recursive file deletion detected" ],
       [ name |-> "sudo_usage",
         \* \bsudo\b
         pattern |-> RSeq(<<WordB, RLit("sudo"), WordB>>),
         risk_level |-> "High",
         description |-> "Elevated privileges requested" ],
       [ name |-> "disk_operations",
         \* \b(dd|mkfs|fdisk)\b
         pattern |-> RSeq(<< WordB, RAlt(<<RLit("dd"), RLit("mkfs"), RLit("fdisk")>>),
                           WordB >>),
         risk_level |-> "Critical",
         description |-> "Low-level disk operations detected" ],
       [ name |-> "network_exposure",
         \* \b(nc|netcat|ncat)\b.*-l
         pattern |-> RSeq(<< WordB, RAlt(<<RLit("nc"), RLit("netcat"), RLit("ncat")>>),
                           WordB, RStar(AnyChar), RLit("-l") >>),
         risk_level |-> "Medium",
         description |-> "Network port listening detected" ],
       [ name |-> "system_modification",
         \* \b(chmod\s+777|chown\s+root)
         pattern |-> RSeq(<< WordB,
                           RAlt(<< RSeq(<<RLit("chmod"), RPlus(RCls(SpaceChars)), RLit("777")>>),
                                  RSeq(<<RLit("chown"), RPlus(RCls(SpaceChars)), RLit("root")>>)
                               >>) >>),
         risk_level |-> "High",
         description |-> "Dangerous permission changes detected" ],
       [ name |-> "data_exfiltration",
         \* \b(curl|wget|scp|rsync)\b.*\|.*\b(nc|netcat|bash)\b
         pattern |-> RSeq(<< WordB,
                           RAlt(<<RLit("curl"), RLit("wget"), RLit("scp"), RLit("rsync")>>),
                           WordB, RStar(AnyChar), RLit("|"), RStar(AnyChar), WordB,
                           RAlt(<<RLit("nc"), RLit("netcat"), RLit("bash")>>), WordB >>),
         risk_level |-> "Critical",
         description |-> "Potential data exfiltration pattern detected" ],
       [ name |-> "shell_injection",
         \* [;&|BQ$]\s*\( ; the class's backquote BQ is left out: no command
         \* of the model holds one
         pattern |-> RSeq(<< RCls({";", "&", "|", "$"}), RStar(RCls(SpaceChars)),
                           RLit("(") >>),
         risk_level |-> "High",
         description |-> "Potential shell injection detected" ],
       [ name |-> "password_exposure",
         \* (password|passwd|secret|api[_-]?key)\s*=\s*[QUOTES]?\w+  (a single or double quote)
         pattern |-> RSeq(<< RAlt(<< RLit("password"), RLit("passwd"), RLit("secret"),
                                  RSeq(<<RLit("api"), ROpt(RCls({"_", "-"})), RLit("key")>>)
                               >>),
                           RStar(RCls(SpaceChars)), RLit("="), RStar(RCls(SpaceChars)),
                           ROpt(RCls({"'", "\""})), RPlus(RCls(WordChars)) >>),
         risk_level |-> "High",
         description |-> "Hardcoded credentials detected" ] >>

\* a rule is immutable once built: the state holds the rules' names, and the
\* rule of a name is looked up among the rules that exist
rule_names(rule_list) == [k \in 1..Len(rule_list) |-> rule_list[k].name]

\* the suggestions analyze_command adds for a matched rule
suggestions_for(name) ==
    CASE name = "dangerous_rm" ->
            << "Use specific paths instead of wildcards",
               "Consider using 'trash' or 'safe-rm' instead" >>
      [] name = "sudo_usage" -> <<"Explain why elevated privileges are needed">>
      [] name = "disk_operations" -> <<"Use file-level operations instead">>
      [] OTHER -> <<>>

\* a faulty variant: the comparison that raises max_risk is turned round
raise_risk_flipped(max_risk, level) ==
    IF RiskOrd(level) < RiskOrd(max_risk) THEN level ELSE max_risk

\* if (rule.risk_level as u8) > (max_risk as u8) { max_risk = rule.risk_level }
raise_risk(max_risk, level) ==
    IF RiskOrd(level) > RiskOrd(max_risk) THEN level ELSE max_risk

\* rules operators add with add_rule in the model
extra_rules ==
    << [ name |-> "listing",
         pattern |-> RSeq(<<WordB, RLit("ls"), WordB>>),
         risk_level |-> "Medium",
         description |-> "Directory listing" ],
       [ name |-> "git_push",
         pattern |-> RSeq(<<RLit("git"), RPlus(RCls(SpaceChars)), RLit("push")>>),
         risk_level |-> "High",
         description |-> "Publishes commits" ] >>

rule_named(name) ==
    LET all == default_rules \o extra_rules
    IN  all[CHOOSE k \in 1..Len(all) : all[k].name = name]

\* the loop of analyze_command from rule k on; acc = [issues, suggestions, max_risk]
RECURSIVE analyze_loop(_, _, _, _)
analyze_loop(rule_list, k, command, acc) ==
    IF k > Len(rule_list) THEN acc
    ELSE LET rule == rule_named(rule_list[k])
         IN  IF is_match(rule.pattern, command)
             THEN analyze_loop(rule_list, k + 1, command,
                    [ issues |-> Append(acc.issues,
                                        rule.name \o ": " \o rule.description),
                      suggestions |-> acc.suggestions \o suggestions_for(rule.name),
                      max_risk |-> raise_risk(acc.max_risk, rule.risk_level) ])
             ELSE analyze_loop(rule_list, k + 1, command, acc)

\* a faulty variant: only a Low analysis is reported safe
analyze_command_low_only(rule_list, command) ==
    LET r == analyze_loop(rule_list, 1, command,
                          [issues |-> <<>>, suggestions |-> <<>>, max_risk |-> "Low"])
    IN  [ safe |-> r.max_risk = "Low",
          risk_level |-> r.max_risk,
          issues |-> r.issues,
          suggestions |-> r.suggestions ]

\* Guardrails::analyze_command
analyze_command(rule_list, command) ==
    LET r == analyze_loop(rule_list, 1, command,
                          [issues |-> <<>>, suggestions |-> <<>>, max_risk |-> "Low"])
    IN  [ safe |-> RiskOrd(r.max_risk) <= RiskOrd("Medium"),
          risk_level |-> r.max_risk,
          issues |-> r.issues,
          suggestions |-> r.suggestions ]

(***************************************************************************)
(* AuditLogger                                                             *)
(*                                                                         *)
(* An entry's id (a fresh random Uuid) and timestamp are left out: nothing *)
(* in the code reads them.                                                 *)
(***************************************************************************)
None == "None"

AuditLogEntry(llm_id, action, details, approved, reason) ==
    [ llm_id |-> llm_id, action |-> action, details |-> details,
      approved |-> approved, reason |-> reason ]

\* a faulty variant: the entry is put in front of the log
log_prepend(llm_id, action, details, approved, reason) ==
    <<AuditLogEntry(llm_id, action, details, approved, reason)>> \o logs

\* AuditLogger::log: the log after the call
log(llm_id, action, details, approved, reason) ==
    Append(logs, AuditLogEntry(llm_id, action, details, approved, reason))

get_all == logs

\* logs.iter().filter(..).cloned().collect(): the entries that pass, in log order
get_by_llm(llm_id) ==
    LET Test(e) == e.llm_id # None /\ e.llm_id = llm_id
    IN  SelectSeq(logs, Test)

get_denied ==
    LET Test(e) == ~e.approved
    IN  SelectSeq(logs, Test)

count == Len(logs)

(***************************************************************************)
(* SecurityEngineImpl                                                      *)
(*                                                                         *)
(* Callers are concurrent tasks.  A call advances one lock-protected       *)
(* section at a time; a step that needs the lockdown lock waits while a    *)
(* task holds its write guard.                                             *)
(***************************************************************************)
Tasks == {"t1", "t2"}
Actors == {"llm-a", "llm-b"}

\* if failed_count >= 5
FailThreshold == 5

\* hist: trig_done: a trigger_lockdown has returned and no release_lockdown has
\* started since; denials[a]: the permission manager's denials of actor a since
\* the latest reset_failed_count(a) or release; cleared: the audit log has been
\* cleared; calls: the entries handed to AuditLogger::log since the latest clear;
\* last_write: the task that wrote the lockdown state last and what it wrote;
\* race: a write has happened while another task's trigger or release was waiting
\* for the write guard
NoHistory ==
    [ trig_done |-> FALSE, denials |-> [a \in Actors |-> 0], cleared |-> FALSE,
      calls |-> <<>>, last_write |-> [task |-> "none", value |-> "Normal"],
      race |-> FALSE ]

NoCall == [op |-> "none"]
NoRet  == [op |-> "none"]

Ok(op, value)  == [op |-> op, ok |-> TRUE, value |-> value]
Err(op, kind, msg) == [op |-> op, ok |-> FALSE, value |-> [kind |-> kind, msg |-> msg]]

CheckPermissionCall(llm_id, permission) ==
    [ op |-> "check_permission", llm_id |-> llm_id, permission |-> permission,
      explanation |-> "why", granted |-> FALSE, failed_count |-> 0 ]
AnalyzeCommandCall(command) == [op |-> "analyze_command", command |-> command]
TriggerLockdownCall(reason) == [op |-> "trigger_lockdown", reason |-> reason]
ReleaseLockdownCall(auth_token) == [op |-> "release_lockdown", auth_token |-> auth_token]
LockdownStateCall == [op |-> "lockdown_state"]
ResetFailedCountCall(llm_id) == [op |-> "reset_failed_count", llm_id |-> llm_id]
ClearCall == [op |-> "clear"]

\* the first step of each operation
EntryPoint(op) ==
    CASE op = "check_permission"   -> "cp_lock"
      [] op = "analyze_command"    -> "ac_run"
      [] op = "trigger_lockdown"   -> "tl_lock"
      [] op = "release_lockdown"   -> "rl_lock"
      [] op = "lockdown_state"     -> "ls_read"
      [] op = "reset_failed_count" -> "rf_run"
      [] op = "clear"              -> "cl_run"

Return(t, r) ==
    /\ pc' = [pc EXCEPT ![t] = "idle"]
    /\ ret' = [ret EXCEPT ![t] = r]

Goto(t, label) ==
    /\ pc' = [pc EXCEPT ![t] = label]
    /\ ret' = ret

\* a caller starts call c on task t
StartCall(t, c) ==
    /\ pc[t] = "idle"
    /\ budget > 0
    /\ budget' = budget - 1
    /\ pc' = [pc EXCEPT ![t] = EntryPoint(c.op)]
    /\ call' = [call EXCEPT ![t] = c]
    /\ ret' = [ret EXCEPT ![t] = NoRet]
    /\ hist' = IF c.op = "release_lockdown"
               THEN [hist EXCEPT !.trig_done = FALSE] ELSE hist
    /\ UNCHANGED <<platformVars, pmVars, rules, logs, lockdown_state, lockdown_writer, last>>

\* a faulty variant: the lockdown state is not looked at
sees_locked_never(state) == FALSE

\* if *state == LockdownState::Locked
sees_locked(state) == state = "Locked"

\* check_permission, lines 51-56: read the lockdown state, refuse when Locked
cp_lock(t) ==
    /\ pc[t] = "cp_lock"
    /\ lockdown_writer = "none"
    /\ IF sees_locked(lockdown_state)
       THEN Return(t, Ok("check_permission", FALSE))
       ELSE Goto(t, "cp_check")
    /\ UNCHANGED <<platformVars, pmVars, rules, logs, lockdown_state, lockdown_writer, call,
                   budget, hist, last>>

\* PermissionManager::check_permission: the decision
pm_granted(llm_id, permission) == granted_by(get_scope(llm_id), permission)

\* a faulty variant: a granted request is counted as well
pm_failed_after_any(llm_id, granted) == track_failed_request(llm_id)

\* PermissionManager::check_permission: failed_requests after the decision
pm_failed_after(llm_id, granted) ==
    IF granted THEN failed_requests ELSE track_failed_request(llm_id)

\* check_permission, lines 59-61: the permission manager decides and counts a denial
cp_check(t) ==
    /\ pc[t] = "cp_check"
    /\ LET c == call[t]
           g == pm_granted(c.llm_id, c.permission)
       IN  /\ failed_requests' = pm_failed_after(c.llm_id, g)
           /\ call' = [call EXCEPT ![t].granted = g]
           /\ hist' = IF g THEN hist
                      ELSE [hist EXCEPT !.denials[c.llm_id] = @ + 1]
    /\ Goto(t, "cp_audit")
    /\ UNCHANGED <<platformVars, global_scope, llm_scopes, rules, logs, lockdown_state,
                   lockdown_writer, budget, last>>

\* check_permission, lines 64-79 and 93: the decision is logged; a granted call returns
cp_audit(t) ==
    /\ pc[t] = "cp_audit"
    /\ LET c == call[t]
       IN  /\ logs' = log(c.llm_id, "Permission request",
                          [permission |-> c.permission, explanation |-> c.explanation],
                          c.granted,
                          IF ~c.granted THEN "Permission denied by policy" ELSE None)
           /\ IF c.granted
              THEN Return(t, Ok("check_permission", TRUE))
              ELSE Goto(t, "cp_count")
    /\ UNCHANGED <<platformVars, pmVars, rules, lockdown_state, lockdown_writer, call, budget,
                   hist, last>>

\* a faulty variant: the threshold is passed at five only
too_many_failed_exactly(failed_count) == failed_count = FailThreshold

\* a faulty variant: the threshold is passed only above five
too_many_failed_above(failed_count) == failed_count > FailThreshold

\* if failed_count >= 5
too_many_failed(failed_count) == failed_count >= FailThreshold

\* check_permission, lines 82-93: a refused call reads the actor's count and escalates
cp_count(t) ==
    /\ pc[t] = "cp_count"
    /\ LET fc == get_failed_count(call[t].llm_id)
       IN  IF too_many_failed(fc)
           THEN /\ call' = [call EXCEPT ![t].failed_count = fc]
                /\ Goto(t, "tl_lock")
           ELSE /\ call' = call
                /\ Return(t, Ok("check_permission", FALSE))
    /\ UNCHANGED <<platformVars, pmVars, rules, logs, lockdown_state, lockdown_writer, budget,
                   hist, last>>

\* the reason trigger_lockdown runs with on task t
reason_of(t) ==
    IF call[t].op = "check_permission"
    THEN [kind |-> "MultipleFailedRequests", count |-> call[t].failed_count]
    ELSE call[t].reason

\* task u is at lockdown_state.write().await of a trigger or a release
AwaitsWrite(u) ==
    \/ pc[u] = "tl_lock"
    \/ pc[u] = "rl_lock" /\ Len(call[u].auth_token) > 0

\* hist after task t has written value to the lockdown state
Written(t, value) ==
    [hist EXCEPT !.last_write = [task |-> t, value |-> value],
                 !.race = @ \/ \E u \in Tasks \ {t} : AwaitsWrite(u)]

\* a faulty variant: trigger enters the read-only mode its log line speaks of
triggered_state_read_only == "ReadOnly"

\* *state = LockdownState::Locked
triggered_state == "Locked"

\* trigger_lockdown, lines 125-126: take the write guard, set Locked
tl_lock(t) ==
    /\ pc[t] = "tl_lock"
    /\ lockdown_writer = "none"
    /\ lockdown_writer' = t
    /\ lockdown_state' = triggered_state
    /\ hist' = Written(t, triggered_state)
    /\ Goto(t, "tl_audit")
    /\ UNCHANGED <<platformVars, pmVars, rules, logs, call, budget, last>>

\* trigger_lockdown, lines 129-143: log, then the guard is dropped as the call
\* returns; a check_permission that escalated returns its refusal
tl_audit(t) ==
    /\ pc[t] = "tl_audit"
    /\ logs' = log(None, "Lockdown triggered", [reason |-> reason_of(t)], FALSE,
                   [text |-> "Lockdown", reason |-> reason_of(t)])
    /\ lockdown_writer' = "none"
    /\ hist' = [hist EXCEPT !.trig_done = TRUE]
    /\ IF call[t].op = "check_permission"
       THEN Return(t, Ok("check_permission", call[t].granted))
       ELSE Return(t, Ok("trigger_lockdown", "unit"))
    /\ UNCHANGED <<platformVars, pmVars, rules, lockdown_state, call, budget, last>>

\* a faulty variant: the empty token is accepted
token_rejected_never(auth_token) == FALSE

\* if auth_token.is_empty()
token_rejected(auth_token) == Len(auth_token) = 0

\* a faulty variant: release leaves the state as it is
released_state_kept == lockdown_state

\* *state = LockdownState::Normal
released_state == "Normal"

\* release_lockdown, lines 149-158: refuse an empty token; else take the write
\* guard and set Normal
rl_lock(t) ==
    /\ pc[t] = "rl_lock"
    /\ IF token_rejected(call[t].auth_token)
       THEN /\ Return(t, Err("release_lockdown", "PermissionDenied",
                             "Invalid authentication token"))
            /\ UNCHANGED <<lockdown_state, lockdown_writer, hist>>
       ELSE /\ lockdown_writer = "none"
            /\ lockdown_writer' = t
            /\ lockdown_state' = released_state
            /\ hist' = [Written(t, released_state) EXCEPT
                            !.denials = [a \in Actors |-> 0]]
            /\ Goto(t, "rl_audit")
    /\ UNCHANGED <<platformVars, pmVars, rules, logs, call, budget, last>>

\* release_lockdown, lines 161-175: log, then the guard is dropped as the call returns
rl_audit(t) ==
    /\ pc[t] = "rl_audit"
    /\ logs' = log(None, "Lockdown released", [authenticated |-> TRUE], TRUE,
                   "User authenticated")
    /\ lockdown_writer' = "none"
    /\ Return(t, Ok("release_lockdown", "unit"))
    /\ UNCHANGED <<platformVars, pmVars, rules, lockdown_state, call, budget, hist, last>>

\* the commands the callers of the engine have analyzed
EngineCommands == {"rm -rf /", "ls -la"}

\* self.guardrails.analyze_command(command): the engine's Guardrails is the one
\* Guardrails::new() built, and nothing adds a rule to it
engine_analysis ==
    [c \in EngineCommands |-> analyze_command(rule_names(default_rules), c)]

\* analyze_command: analyze, log the analysis, return it
ac_run(t) ==
    /\ pc[t] = "ac_run"
    /\ LET analysis == engine_analysis[call[t].command]
       IN  /\ logs' = log(None, "Command analysis",
                          [ command |-> call[t].command, safe |-> analysis.safe,
                            risk_level |-> analysis.risk_level,
                            issues |-> analysis.issues ],
                          analysis.safe,
                          IF ~analysis.safe
                          THEN [text |-> "Risk level", level |-> analysis.risk_level]
                          ELSE None)
           /\ Return(t, Ok("analyze_command", analysis))
    /\ UNCHANGED <<platformVars, pmVars, rules, lockdown_state, lockdown_writer, call, budget,
                   hist, last>>

\* lockdown_state: read under the read guard
ls_read(t) ==
    /\ pc[t] = "ls_read"
    /\ lockdown_writer = "none"
    /\ Return(t, Ok("lockdown_state", lockdown_state))
    /\ UNCHANGED <<platformVars, pmVars, rules, logs, lockdown_state, lockdown_writer, call,
                   budget, hist, last>>

\* permissions().reset_failed_count
rf_run(t) ==
    /\ pc[t] = "rf_run"
    /\ failed_requests' = MapRemove(failed_requests, call[t].llm_id)
    /\ hist' = [hist EXCEPT !.denials[call[t].llm_id] = 0]
    /\ Return(t, Ok("reset_failed_count", "unit"))
    /\ UNCHANGED <<platformVars, global_scope, llm_scopes, rules, logs, lockdown_state,
                   lockdown_writer, call, budget, last>>

\* audit().clear
cl_run(t) ==
    /\ pc[t] = "cl_run"
    /\ logs' = <<>>
    /\ hist' = [hist EXCEPT !.cleared = TRUE]
    /\ Return(t, Ok("clear", "unit"))
    /\ UNCHANGED <<platformVars, pmVars, rules, lockdown_state, lockdown_writer, call, budget, last>>

\* a step of the call task t is running
Step(t) ==
    \/ cp_lock(t) \/ cp_check(t) \/ cp_audit(t) \/ cp_count(t)
    \/ tl_lock(t) \/ tl_audit(t)
    \/ rl_lock(t) \/ rl_audit(t)
    \/ ac_run(t) \/ ls_read(t) \/ rf_run(t) \/ cl_run(t)

(***************************************************************************)
(* The engine under concurrent callers                                     *)
(***************************************************************************)
ReqGranted == Command("git status")
ReqDenied  == FileRead("/etc/passwd")

LockdownReasons ==
    { [kind |-> "UserPanicButton"],
      [kind |-> "PolicyViolation", details |-> "policy"] }

EngineCalls ==
    {CheckPermissionCall(a, p) : a \in Actors, p \in {ReqGranted, ReqDenied}}
    \cup {AnalyzeCommandCall(c) : c \in EngineCommands}
    \cup {TriggerLockdownCall(r) : r \in LockdownReasons}
    \cup {ReleaseLockdownCall(k) : k \in {"", "token"}}
    \cup {LockdownStateCall, ClearCall}
    \cup {ResetFailedCountCall(a) : a \in Actors}

\* Router::new, LoadBalancer::new, MessageBus::new, LLMPool::new and
\* Orchestrator::new: empty maps, counter 0, a channel nobody has subscribed to
\* and nothing was sent on, the local lockdown state Normal
InitPlatform ==
    /\ llm_registry = EmptyMap
    /\ counter = 0
    /\ sender = [buffer |-> <<>>, pos |-> 0, rx |-> EmptyMap]
    /\ providers = EmptyMap
    /\ capability_index = EmptyMap
    /\ orch_lockdown_state = "Normal"
    /\ trace = <<>>

\* SecurityEngineImpl::new
InitEngine ==
    /\ global_scope = DefaultScope
    /\ llm_scopes = EmptyMap
    /\ failed_requests = EmptyMap
    /\ rules = rule_names(default_rules)
    /\ logs = <<>>
    /\ lockdown_state = "Normal"
    /\ lockdown_writer = "none"
    /\ pc = [t \in Tasks |-> "idle"]
    /\ call = [t \in Tasks |-> NoCall]
    /\ ret = [t \in Tasks |-> NoRet]
    /\ hist = NoHistory
    /\ last = NoRet
    /\ InitPlatform

Init ==
    /\ InitEngine
    /\ budget = MaxCalls

Next ==
    \E t \in Tasks :
        \/ \E c \in EngineCalls : StartCall(t, c)
        \/ Step(t)

Spec == Init /\ [][Next]_vars

(***************************************************************************)
(* The escalation scenario: permission checks, resets and releases, long   *)
(* enough for an actor to pass the failure threshold                       *)
(***************************************************************************)
EscalationCalls ==
    {CheckPermissionCall(a, p) : a \in Actors, p \in {ReqGranted, ReqDenied}}
    \cup {ReleaseLockdownCall("token"), LockdownStateCall}
    \cup {ResetFailedCountCall(a) : a \in Actors}

\* the caller of the scenario: it starts a call when the one before has returned
EscalationCaller == "t1"

InitEscalation ==
    /\ InitEngine
    /\ budget = FailThreshold + MaxOver

NextEscalation ==
    \E t \in Tasks :
        \/ /\ t = EscalationCaller
           /\ pc[t] = "idle"
           /\ \E c \in EscalationCalls : StartCall(t, c)
        \/ cp_lock(t) \/ cp_check(t) \/ cp_audit(t) \/ cp_count(t)
        \/ tl_lock(t) \/ tl_audit(t)
        \/ rl_lock(t) \/ rl_audit(t)
        \/ ls_read(t) \/ rf_run(t)

SpecEscalation == InitEscalation /\ [][NextEscalation]_vars

(***************************************************************************)
(* Properties of the security engine                                       *)
(***************************************************************************)
\* task t takes a step of the call it is running
Steps(t) == pc[t] # "idle" /\ pc'[t] # pc[t]

\* task t returns from its call in this step
Returns(t) == pc[t] # "idle" /\ pc'[t] = "idle"

\* a check_permission of actor a has been denied by the permission manager and
\* has not returned yet
Escalating(a) ==
    \E t \in Tasks :
        /\ call[t].op = "check_permission"
        /\ call[t].llm_id = a
        /\ pc[t] \in {"cp_audit", "cp_count", "tl_lock", "tl_audit"}

FiveDenials == \E a \in Actors : hist.denials[a] >= FailThreshold /\ ~Escalating(a)

C1_LockedAfterFive ==
    FiveDenials =>
        /\ lockdown_state = "Locked"
        /\ \A t \in Tasks :
              pc[t] = "idle" /\ ret[t].op = "lockdown_state"
                  => ret[t].value = "Locked"

C1_RefusedWhileLocked ==
    \A t \in Tasks :
        pc[t] = "cp_lock" /\ Steps(t) /\ lockdown_state = "Locked"
            => /\ pc'[t] = "idle"
               /\ ret'[t].op = "check_permission"
               /\ ret'[t].value = FALSE

C1_LockedUntilRelease ==
    lockdown_state = "Locked" /\ lockdown_state' # "Locked"
        => \E t \in Tasks :
              /\ call[t].op = "release_lockdown"
              /\ call[t].auth_token # ""
              /\ Steps(t)

\* C1: once an actor has been denied five times with no reset_failed_count and
\* no release_lockdown in between, the state is Locked and lockdown_state()
\* returns Locked; a check_permission that finds the state Locked returns false,
\* whoever asks and whatever is asked; and only a release_lockdown with a
\* non-empty token takes the state out of Locked.
C1_EscalationLocks ==
    /\ []C1_LockedAfterFive
    /\ [][C1_RefusedWhileLocked /\ C1_LockedUntilRelease]_vars

\* C1 witness: after five denials of one actor, a request the scope grants has
\* been refused to the other actor
C1_Witness ==
    \E t \in Tasks, a \in Actors :
        /\ hist.denials[a] >= FailThreshold
        /\ lockdown_state = "Locked"
        /\ pc[t] = "idle"
        /\ ret[t].op = "check_permission"
        /\ ret[t].value = FALSE
        /\ call[t].llm_id # a
        /\ call[t].permission = ReqGranted
        /\ granted_by(get_scope(call[t].llm_id), call[t].permission)

\* C2 as claimed: no check_permission returns granted = true after a
\* trigger_lockdown has returned and before a later release_lockdown has started.
C2_NoGrantOnceLocked ==
    [][\A t \in Tasks :
          Returns(t) /\ ret'[t].op = "check_permission" /\ ret'[t].value = TRUE
              => ~hist.trig_done]_vars

\* the entry check_permission logs for the refusal of call c
IsDenialEntry(e, c) ==
    /\ e.action = "Permission request"
    /\ e.llm_id = c.llm_id
    /\ e.details.permission = c.permission
    /\ ~e.approved

\* C3 as claimed: when a check_permission returns false, the audit log holds an
\* unapproved entry for that request (the log not having been cleared), whether
\* the scope rules refused or the state was Locked.
C3_EveryDenialAudited ==
    [][\A t \in Tasks :
          /\ Returns(t)
          /\ ret'[t].op = "check_permission"
          /\ ret'[t].value = FALSE
          /\ ~hist'.cleared
          => \E i \in 1..Len(logs') : IsDenialEntry(logs'[i], call[t])]_vars

\* the step in which release_lockdown looks at an empty token
EmptyTokenStep(t) ==
    /\ pc[t] = "rl_lock"
    /\ call[t].auth_token = ""
    /\ Steps(t)

AppendsOne(Test(_)) ==
    /\ Len(logs') = Len(logs) + 1
    /\ SubSeq(logs', 1, Len(logs)) = logs
    /\ Test(logs'[Len(logs')])

\* C5: a release_lockdown with a non-empty token appends nothing before its
\* audit step, and returns Ok in the step that appends exactly one entry, an
\* approved "Lockdown released"; the state is Normal as it returns, whatever it
\* was before.
C5_ReleaseSetsNormalAndAudits ==
    [][\A t \in Tasks :
          call[t].op = "release_lockdown" /\ call[t].auth_token # "" /\ Steps(t)
              => LET Released(e) == e.action = "Lockdown released" /\ e.approved
                 IN  IF pc'[t] = "idle"
                     THEN /\ ret'[t].op = "release_lockdown" /\ ret'[t].ok
                          /\ lockdown_state' = "Normal"
                          /\ AppendsOne(Released)
                     ELSE /\ pc[t] = "rl_lock"
                          /\ lockdown_state' = "Normal"
                          /\ logs' = logs]_vars

\* C5 witness: releases have returned Ok from Locked and from Normal
C5_Witness ==
    \E t \in Tasks :
        /\ pc[t] = "idle"
        /\ ret[t].op = "release_lockdown" /\ ret[t].ok
        /\ lockdown_state = "Normal"
        /\ Len(logs) >= 3
        /\ logs[Len(logs) - 2].action = "Lockdown triggered"
        /\ logs[Len(logs) - 1].action = "Lockdown released"
        /\ logs[Len(logs)].action = "Lockdown released"
        /\ logs[Len(logs)].approved

\* C6: a trigger_lockdown appends nothing before its audit step, and returns Ok
\* in the step that appends exactly one entry, an unapproved "Lockdown
\* triggered" carrying the reason; the state is Locked as it returns, whatever
\* it was before.
C6_TriggerLocksAndAudits ==
    [][\A t \in Tasks :
          call[t].op = "trigger_lockdown" /\ Steps(t)
              => LET Triggered(e) ==
                         /\ e.action = "Lockdown triggered"
                         /\ ~e.approved
                         /\ e.details.reason = call[t].reason
                 IN  IF pc'[t] = "idle"
                     THEN /\ ret'[t].op = "trigger_lockdown" /\ ret'[t].ok
                          /\ lockdown_state' = "Locked"
                          /\ AppendsOne(Triggered)
                     ELSE /\ pc[t] = "tl_lock"
                          /\ lockdown_state' = "Locked"
                          /\ logs' = logs]_vars

\* C6 witness: a trigger has returned Ok on a state that was already Locked
C6_Witness ==
    \E t \in Tasks :
        /\ pc[t] = "idle"
        /\ ret[t].op = "trigger_lockdown" /\ ret[t].ok
        /\ lockdown_state = "Locked"
        /\ Len(logs) >= 2
        /\ logs[Len(logs) - 1].action = "Lockdown triggered"
        /\ logs[Len(logs)].action = "Lockdown triggered"
        /\ ~logs[Len(logs)].approved
        /\ logs[Len(logs)].details.reason # logs[Len(logs) - 1].details.reason

(***************************************************************************)
(* The permission manager on its own: calls made one at a time on          *)
(* PermissionManager::new()                                                *)
(***************************************************************************)
\* scopes the callers set, beside the default one
ScopeNarrow ==
    [ file_system |->
        [ read_paths    |-> <<"/etc/hosts">>,
          write_paths   |-> <<>>,
          execute_paths |-> <<"/usr/bin/*">> ],
      network |->
        [ inbound |-> FALSE, outbound |-> FALSE, require_approval |-> <<>> ],
      commands |->
        [ whitelist |-> <<"git", "">>,
          blacklist |-> <<"push">>,
          require_explanation |-> FALSE ],
      resources |->
        [ max_cpu_percent |-> 10, max_memory_gb |-> 1, max_disk_gb |-> 1 ] ]

ScopeOpen ==
    [ file_system |->
        [ read_paths    |-> <<"/data/*.txt", "/home/*/downloads/*">>,
          write_paths   |-> <<"/tmp/*">>,
          execute_paths |-> <<>> ],
      network |->
        [ inbound |-> FALSE, outbound |-> TRUE, require_approval |-> <<>> ],
      commands |->
        [ whitelist |-> <<"ls", "rm">>,
          blacklist |-> <<>>,
          require_explanation |-> FALSE ],
      resources |->
        [ max_cpu_percent |-> 100, max_memory_gb |-> 64, max_disk_gb |-> 500 ] ]

PermScopes == {DefaultScope, ScopeNarrow, ScopeOpen}

PermPaths ==
    { "/home/alice/downloads/report.pdf", "/home/user/downloads/file.txt",
      "/home/*/downloads/literal.txt", "/etc/passwd", "/etc/hosts",
      "/rag/doc.md", "/ragged", "/usr/bin/env", "/tmp/x" }

PermCommands ==
    { "git status", "rm -rf /", "ls -la", "", "  ", "git", "  git log",
      "git\tstatus", "gitk", "cat sudo", "git rm -rf /", "git push",
      "rm -rf /tmp", "sudo ls", "ls", "npm install" }

PermRequests ==
    {FileRead(p) : p \in PermPaths}
    \cup {FileWrite(p) : p \in {"/tmp/x", "/home/user/downloads/file.txt"}}
    \cup {FileExecute(p) : p \in {"/usr/bin/env", "/tmp/x"}}
    \cup {Command(c) : c \in PermCommands}
    \cup {NetworkAccess(u) : u \in {"https://example.com"}}
    \cup {ResourceIncrease(r, n) : r \in {"cpu", "memory", "gpu"}, n \in {8, 81}}

\* PermissionManager::check_permission
pm_check_permission(llm_id, permission) ==
    /\ get_failed_count(llm_id) < MaxTracked
    /\ LET g == pm_granted(llm_id, permission)
       IN  /\ failed_requests' = pm_failed_after(llm_id, g)
           /\ last' = [ op |-> "check_permission", llm_id |-> llm_id,
                        permission |-> permission, scope |-> get_scope(llm_id),
                        granted |-> g ]
    /\ UNCHANGED <<platformVars, global_scope, llm_scopes, rules, logs, engVars>>

\* PermissionManager::reset_failed_count
pm_reset_failed_count(llm_id) ==
    /\ failed_requests' = MapRemove(failed_requests, llm_id)
    /\ last' = [op |-> "reset_failed_count", llm_id |-> llm_id]
    /\ UNCHANGED <<platformVars, global_scope, llm_scopes, rules, logs, engVars>>

\* PermissionManager::set_global_scope
pm_set_global_scope(scope) ==
    /\ global_scope' = scope
    /\ last' = [op |-> "set_global_scope"]
    /\ UNCHANGED <<platformVars, llm_scopes, failed_requests, rules, logs, engVars>>

\* PermissionManager::set_llm_scope
pm_set_llm_scope(llm_id, scope) ==
    /\ llm_scopes' = MapPut(llm_scopes, llm_id, scope)
    /\ last' = [op |-> "set_llm_scope", llm_id |-> llm_id]
    /\ UNCHANGED <<platformVars, global_scope, failed_requests, rules, logs, engVars>>

InitPermissions ==
    /\ InitEngine
    /\ budget = 0

NextPermissions ==
    \/ \E a \in Actors, p \in PermRequests : pm_check_permission(a, p)
    \/ \E a \in Actors : pm_reset_failed_count(a)
    \/ \E s \in PermScopes : pm_set_global_scope(s)
    \/ \E a \in Actors, s \in PermScopes : pm_set_llm_scope(a, s)

SpecPermissions == InitPermissions /\ [][NextPermissions]_vars

\* C8 as claimed: with the pattern "/home/*/downloads/*" among the read paths, a
\* FileRead of a file in a user's downloads directory is granted, and a
\* FileRead of "/etc/passwd" is denied.
C8_DownloadsReadable ==
    /\ last.op = "check_permission"
    /\ last.permission.type = "FileRead"
    /\ \E k \in 1..Len(last.scope.file_system.read_paths) :
          last.scope.file_system.read_paths[k] = "/home/*/downloads/*"
    => /\ last.permission.path \in { "/home/alice/downloads/report.pdf",
                                     "/home/user/downloads/file.txt" }
            => last.granted
       /\ last.permission.path = "/etc/passwd" => ~last.granted

\* tok is the first whitespace-delimited token of cmd; the empty tok stands for
\* a cmd that has no token
IsFirstTokenOf(tok, cmd) ==
    IF tok = ""
    THEN \A i \in 1..Len(cmd) : IsWhitespace(CharAt(cmd, i))
    ELSE \E b \in 1..Len(cmd) :
            /\ \A i \in 1..(b - 1) : IsWhitespace(CharAt(cmd, i))
            /\ b + Len(tok) - 1 <= Len(cmd)
            /\ SubSeq(cmd, b, b + Len(tok) - 1) = tok
            /\ \A i \in 1..Len(tok) : ~IsWhitespace(CharAt(tok, i))
            /\ b + Len(tok) <= Len(cmd) => IsWhitespace(CharAt(cmd, b + Len(tok)))

\* sub occurs in text: text is some characters, then sub, then some characters
OccursIn(sub, text) ==
    \E i \in 1..(Len(text) + 1), j \in 0..Len(text) :
        j >= i - 1 /\ SubSeq(text, i, j) = sub

\* C9: a Command request is granted if and only if no blacklist entry occurs in
\* the command text and the command's first whitespace-delimited token is a
\* whitelist entry; for a command with no token, if and only if no blacklist
\* entry occurs in it and the whitelist holds the empty string.
C9_CommandGrantedIff ==
    last.op = "check_permission" /\ last.permission.type = "Command"
    => LET cmd == last.permission.command
           wl  == last.scope.commands.whitelist
           bl  == last.scope.commands.blacklist
       IN  last.granted <=>
              /\ \A k \in 1..Len(bl) : ~OccursIn(bl[k], cmd)
              /\ \E k \in 1..Len(wl) : IsFirstTokenOf(wl[k], cmd)

\* C9 witness: a command whose binary is whitelisted has been refused for a
\* blacklist entry in its text
C9_Witness ==
    /\ last.op = "check_permission"
    /\ last.permission.type = "Command"
    /\ last.permission.command = "git rm -rf /"
    /\ \E k \in 1..Len(last.scope.commands.whitelist) :
          last.scope.commands.whitelist[k] = "git"
    /\ \E k \in 1..Len(last.scope.commands.blacklist) :
          last.scope.commands.blacklist[k] = "rm -rf /"
    /\ ~last.granted
    /\ get_failed_count(last.llm_id) >= 1

(***************************************************************************)
(* The guardrails on their own: Guardrails::new(), then add_rule and       *)
(* analyze_command calls made one at a time                                *)
(***************************************************************************)
MaxAdded == 2

GuardCommands ==
    { "rm -rf /", "ls -la", "rm -r *", "rm --force $HOME", "rm  -rf /tmp",
      "rm file.txt", "sudo apt update", "pseudo", "nc -l 8080", "dd if=/dev/zero",
      "add", "chmod 777 x", "chmod 644 x", "curl x | bash", "echo $(id)",
      "password=abc", "api_key = 'k1'", "git push", "git status", "",
      "sudo rm -rf /", "mkfs.ext4 /dev/sda", "cat a; ls", "nc -l 8080 | ls" }

\* Guardrails::add_rule
g_add_rule(name) ==
    /\ Len(rules) < Len(default_rules) + MaxAdded
    /\ rules' = Append(rules, name)
    /\ last' = [op |-> "add_rule", name |-> name]
    /\ UNCHANGED <<platformVars, pmVars, logs, engVars>>

\* Guardrails::analyze_command
g_analyze_command(command) ==
    /\ last' = [ op |-> "analyze_command", command |-> command, rules |-> rules,
                 analysis |-> analyze_command(rules, command) ]
    /\ UNCHANGED <<platformVars, pmVars, rules, logs, engVars>>

InitGuardrails ==
    /\ InitEngine
    /\ budget = 0

NextGuardrails ==
    \/ \E k \in 1..Len(extra_rules) : g_add_rule(extra_rules[k].name)
    \/ \E c \in GuardCommands : g_analyze_command(c)

SpecGuardrails == InitGuardrails /\ [][NextGuardrails]_vars

\* commands the pattern of dangerous_rm, rm\s+(-rf?|--recursive|--force).*
\* (/|\*|\$HOME), matches, and commands no default rule's pattern matches
DangerousRmCommands ==
    {"rm -rf /", "rm -r *", "rm --force $HOME", "rm  -rf /tmp", "sudo rm -rf /"}

HarmlessCommands ==
    {"ls -la", "rm file.txt", "pseudo", "add", "chmod 644 x", "git push",
     "git status", "", "cat a; ls"}

\* C10: with the default rules, the analysis of a command the dangerous
\* recursive delete rule matches ("rm -rf /") has safe = false, risk_level
\* Critical and at least one issue, and the analysis of a command no rule
\* matches ("ls -la") has safe = true, risk_level Low and no issue.
C10_DefaultRulesAnalysis ==
    last.op = "analyze_command" /\ last.rules = rule_names(default_rules)
    => /\ last.command \in DangerousRmCommands
            => /\ ~last.analysis.safe
               /\ last.analysis.risk_level = "Critical"
               /\ last.analysis.issues # <<>>
       /\ last.command \in HarmlessCommands
            => /\ last.analysis.safe
               /\ last.analysis.risk_level = "Low"
               /\ last.analysis.issues = <<>>

\* C10 witness: "rm -rf /" has been analyzed with the default rules and found
\* unsafe for the dangerous_rm rule
C10_Witness ==
    /\ last.op = "analyze_command"
    /\ last.rules = rule_names(default_rules)
    /\ last.command = "rm -rf /"
    /\ ~last.analysis.safe
    /\ last.analysis.issues = <<"dangerous_rm: Dangerous recursive file deletion detected">>

(***************************************************************************)
(* The audit logger on its own: AuditLogger::new(), then log and clear     *)
(* calls made one at a time                                                *)
(***************************************************************************)
MaxLog == 3

\* AuditLogger::log
a_log(llm_id, action, approved) ==
    /\ Len(logs) < MaxLog
    /\ logs' = log(llm_id, action, None, approved, None)
    /\ hist' = [hist EXCEPT !.calls =
                   Append(@, AuditLogEntry(llm_id, action, None, approved, None))]
    /\ last' = [op |-> "log"]
    /\ UNCHANGED <<platformVars, pmVars, rules, lockdown_state, lockdown_writer, pc, call, ret,
                   budget>>

\* AuditLogger::clear
a_clear ==
    /\ logs' = <<>>
    /\ hist' = [hist EXCEPT !.calls = <<>>, !.cleared = TRUE]
    /\ last' = [op |-> "clear"]
    /\ UNCHANGED <<platformVars, pmVars, rules, lockdown_state, lockdown_writer, pc, call, ret,
                   budget>>

InitAudit ==
    /\ InitEngine
    /\ budget = 0

NextAudit ==
    \/ \E id \in Actors \cup {None}, approved \in BOOLEAN :
          a_log(id, "Permission check", approved)
    \/ a_clear

SpecAudit == InitAudit /\ [][NextAudit]_vars

\* sub is exactly the entries of s that pass Test, in the order of s: its k-th
\* entry is the one at the k-th smallest passing position of s
IsOrderedSelection(sub, s, Test(_)) ==
    LET pos == {k \in 1..Len(s) : Test(s[k])}
        nth(k) == CHOOSE p \in pos : Cardinality({q \in pos : q < p}) = k - 1
    IN  /\ Len(sub) = Cardinality(pos)
        /\ \A k \in 1..Len(sub) : sub[k] = s[nth(k)]

C7_Denied(e) == ~e.approved

\* the queries answer from the entries logged since the latest clear
C7_QueriesReflectCalls ==
    /\ get_all = hist.calls
    /\ count = Len(hist.calls)
    /\ IsOrderedSelection(get_denied, hist.calls, C7_Denied)
    /\ \A id \in Actors :
          LET Of(e) == e.llm_id = id
          IN  IsOrderedSelection(get_by_llm(id), hist.calls, Of)

\* a step leaves every stored entry where it is, unless it is a clear
C7_OnlyClearRemoves ==
    \/ last'.op = "clear"
    \/ /\ Len(logs') >= Len(logs)
       /\ SubSeq(logs', 1, Len(logs)) = logs

\* C7: the audit log is append-only and order-preserving: get_all returns the
\* logged entries in call order, count is their number, get_denied and
\* get_by_llm are the order-preserving selections of the entries with
\* approved = false and with the given llm_id, and no operation but clear
\* removes an entry.
C7_AppendOnlyInOrder ==
    []C7_QueriesReflectCalls /\ [][C7_OnlyClearRemoves]_vars

\* C7 witness: three entries are logged, a denial between two approvals, of two
\* actors and of no actor
C7_Witness ==
    /\ count = MaxLog
    /\ Len(get_denied) = 1
    /\ logs[2] = get_denied[1]
    /\ logs[1].approved /\ logs[3].approved
    /\ Len(get_by_llm("llm-a")) = 1
    /\ \E k \in 1..Len(logs) : logs[k].llm_id = None
    /\ hist.cleared

(***************************************************************************)
(* Guardrails: the analysis as a function of the rules that match          *)
(***************************************************************************)
\* the positions, in rule_list, of the rules whose pattern matches command
MatchingRules(rule_list, command) ==
    {k \in 1..Len(rule_list) : is_match(rule_named(rule_list[k]).pattern, command)}

\* level is the highest risk level among the rules at positions ks, Low for none
IsHighestRisk(level, rule_list, ks) ==
    IF ks = {} THEN level = "Low"
    ELSE /\ \E k \in ks : rule_named(rule_list[k]).risk_level = level
         /\ \A k \in ks : RiskOrd(rule_named(rule_list[k]).risk_level) <= RiskOrd(level)

\* C11: for every command and every rule set, analyze_command returns as
\* risk_level the highest risk level among the matching rules (Low when none
\* matches), one issue line per matching rule, and safe = true if and only if
\* that risk_level is Low or Medium.
C11_AnalysisAggregatesMatches ==
    last.op = "analyze_command"
    => LET ks == MatchingRules(last.rules, last.command)
           a  == last.analysis
       IN  /\ IsHighestRisk(a.risk_level, last.rules, ks)
           /\ Len(a.issues) = Cardinality(ks)
           /\ \A k \in ks :
                 \E i \in 1..Len(a.issues) :
                    a.issues[i] = rule_named(last.rules[k]).name \o ": "
                                    \o rule_named(last.rules[k]).description
           /\ a.safe <=> a.risk_level \in {"Low", "Medium"}

\* C11 witness: a command only Medium rules match, the default network_exposure
\* and an added one, has been analyzed: safe, Medium, two issue lines
C11_Witness ==
    /\ last.op = "analyze_command"
    /\ last.command = "nc -l 8080 | ls"
    /\ Len(last.rules) > Len(default_rules)
    /\ last.analysis.safe
    /\ last.analysis.risk_level = "Medium"
    /\ Len(last.analysis.issues) = 2

(***************************************************************************)
(* The router on its own: Router::new(), then register_llm, unregister_llm *)
(* and route_task calls made one at a time                                 *)
(***************************************************************************)
\* an LLMInstance, as far as the router reads it
LLMInstance(id, capabilities, is_loaded) ==
    [id |-> id, capabilities |-> capabilities, is_loaded |-> is_loaded]

\* vec.contains(x)
VecContains(vec, x) == \E k \in 1..Len(vec) : vec[k] = x

\* a faulty variant: an instance that is not loaded passes the filter
is_candidate_unloaded(instance, required_capabilities) ==
    \A k \in 1..Len(required_capabilities) :
        VecContains(instance.capabilities, required_capabilities[k])

\* the filter of route_task
is_candidate(instance, required_capabilities) ==
    /\ instance.is_loaded
    /\ \A k \in 1..Len(required_capabilities) :
          VecContains(instance.capabilities, required_capabilities[k])

\* a faulty variant: the instance with fewer capabilities is sorted first
sorts_before_fewer(a, b) == Len(a.capabilities) < Len(b.capabilities)

\* the comparator of candidates.sort_by gives Less for (a, b): a is put before
\* b. Every candidate is loaded, so the comparison is
\* b.capabilities.len().cmp(&a.capabilities.len())
sorts_before(a, b) == Len(b.capabilities) < Len(a.capabilities)

\* what route_task may return: the first candidate after the stable sort, the
\* candidates taken in the order llm_registry.values() yields them, which is
\* any order; so any candidate no other candidate is sorted before
route_task(required_capabilities) ==
    LET cands == {id \in DOMAIN llm_registry :
                     is_candidate(llm_registry[id], required_capabilities)}
    IN  IF cands = {}
        THEN {Err("route_task", "LLMNotFound",
                  <<"No LLM available for capabilities", required_capabilities>>)}
        ELSE {Ok("route_task", llm_registry[id].id) :
                 id \in {c \in cands :
                            \A d \in cands :
                               ~sorts_before(llm_registry[d], llm_registry[c])}}

RouterIds == {"llm-1", "llm-2", "llm-3"}

RouterCapabilities ==
    {<<>>, <<"Code">>, <<"Code", "Analysis">>, <<"Analysis">>,
     <<"General", "Code", "Analysis">>, <<"Code", "Code", "Code">>}

RouterTasks == {<<>>, <<"Code">>, <<"Analysis", "Code">>, <<"General">>}

\* Router::register_llm
r_register_llm(instance) ==
    /\ llm_registry' = MapPut(llm_registry, instance.id, instance)
    /\ last' = [op |-> "register_llm", id |-> instance.id]
    /\ UNCHANGED <<pmVars, rules, logs, engVars, counter, sender, providers,
                   capability_index, orch_lockdown_state, trace>>

\* Router::unregister_llm
r_unregister_llm(llm_id) ==
    /\ llm_registry' = MapRemove(llm_registry, llm_id)
    /\ last' = [op |-> "unregister_llm", id |-> llm_id]
    /\ UNCHANGED <<pmVars, rules, logs, engVars, counter, sender, providers,
                   capability_index, orch_lockdown_state, trace>>

\* Router::route_task
r_route_task(required_capabilities) ==
    /\ \E r \in route_task(required_capabilities) :
          last' = [ op |-> "route_task",
                    required_capabilities |-> required_capabilities,
                    result |-> r ]
    /\ UNCHANGED <<pmVars, rules, logs, engVars, platformVars>>

InitRouter ==
    /\ InitEngine
    /\ budget = 0

NextRouter ==
    \/ \E id \in RouterIds, caps \in RouterCapabilities, loaded \in BOOLEAN :
          r_register_llm(LLMInstance(id, caps, loaded))
    \/ \E id \in RouterIds : r_unregister_llm(id)
    \/ \E req \in RouterTasks : r_route_task(req)

SpecRouter == InitRouter /\ [][NextRouter]_vars

\* the capabilities an instance declares, as a set
Declared(instance) == {instance.capabilities[k] : k \in 1..Len(instance.capabilities)}

\* the registered instances that are loaded and declare every required capability
Satisfying(required_capabilities) ==
    {id \in DOMAIN llm_registry :
        /\ llm_registry[id].is_loaded
        /\ \A k \in 1..Len(required_capabilities) :
              required_capabilities[k] \in Declared(llm_registry[id])}

\* C12: route_task returns Ok(id) only for a registered id whose instance is
\* loaded and declares every required capability; it returns the not-found
\* error (LLMNotFound) exactly when no registered instance is both; and a task
\* with no required capabilities matches every loaded instance.
C12_RoutesToSatisfying ==
    last.op = "route_task"
    => LET req == last.required_capabilities
           r   == last.result
       IN  /\ r.ok => r.value \in Satisfying(req)
           /\ ~r.ok <=> Satisfying(req) = {}
           /\ ~r.ok => r.value.kind = "LLMNotFound"
           /\ req = <<>> =>
                 Satisfying(req) = {id \in DOMAIN llm_registry : llm_registry[id].is_loaded}

\* C12 witness: a task requiring Code has been routed to the one loaded
\* instance declaring it, past one that declares it and is not loaded
C12_Witness ==
    /\ last.op = "route_task"
    /\ last.required_capabilities = <<"Code">>
    /\ last.result.ok
    /\ \E id \in DOMAIN llm_registry :
          /\ id # last.result.value
          /\ ~llm_registry[id].is_loaded
          /\ "Code" \in Declared(llm_registry[id])
          /\ Len(llm_registry[id].capabilities)
                > Len(llm_registry[last.result.value].capabilities)

MaxSelects == 6
MaxMixed == 3

\* a faulty variant: the index is taken from the incremented counter
rr_index_after(n, len) == (n + 1) % len

\* let index = count % llm_ids.len(), n being count
rr_index(n, len) == n % len

\* a faulty variant: the counter is read and not advanced
select_from_stale(ids) ==
    IF ids = <<>>
    THEN [result |-> None, counter |-> counter]
    ELSE [result |-> ids[rr_index(counter, Len(ids)) + 1], counter |-> counter]

\* select_round_robin and the two branches of select_prefer_local: what is
\* returned for the list ids, and the counter afterwards. fetch_add wraps at
\* usize::MAX, which no run of the model comes near
select_from(ids) ==
    IF ids = <<>>
    THEN [result |-> None, counter |-> counter]
    ELSE [result |-> ids[rr_index(counter, Len(ids)) + 1], counter |-> counter + 1]

\* a faulty variant: nothing is filtered out of the local list
local_of_all(llm_ids, is_local) == llm_ids

\* llm_ids.iter().filter(|id| is_local(id)).collect(); is_local is given as the
\* set of ids it holds for
local_of(llm_ids, is_local) ==
    LET Test(id) == id \in is_local
    IN  SelectSeq(llm_ids, Test)

\* llm_ids.iter().filter(|id| !is_local(id)).collect()
cloud_of(llm_ids, is_local) ==
    LET Test(id) == id \notin is_local
    IN  SelectSeq(llm_ids, Test)

BalancerLists == {<<>>, <<"a", "b", "c">>, <<"cloud1", "local1", "local2">>}

LocalPredicates == {{"local1", "local2"}, {}, {"a", "cloud1", "local9"}}

\* LoadBalancer::select_round_robin
lb_select_round_robin(llm_ids) ==
    LET s == select_from(llm_ids)
    IN  /\ counter' = s.counter
        /\ last' = [op |-> "select_round_robin", llm_ids |-> llm_ids,
                    result |-> s.result]
        /\ trace' = Append(trace, last')
        /\ UNCHANGED <<pmVars, rules, logs, engVars, llm_registry, sender, providers,
                       capability_index, orch_lockdown_state>>

\* LoadBalancer::select_least_loaded: self.select_round_robin(llm_ids)
lb_select_least_loaded(llm_ids) ==
    LET s == select_from(llm_ids)
    IN  /\ counter' = s.counter
        /\ last' = [op |-> "select_least_loaded", llm_ids |-> llm_ids,
                    result |-> s.result]
        /\ trace' = Append(trace, last')
        /\ UNCHANGED <<pmVars, rules, logs, engVars, llm_registry, sender, providers,
                       capability_index, orch_lockdown_state>>

\* LoadBalancer::select_prefer_local
lb_select_prefer_local(llm_ids, is_local) ==
    LET local == local_of(llm_ids, is_local)
        cloud == cloud_of(llm_ids, is_local)
        s == IF local # <<>> THEN select_from(local) ELSE select_from(cloud)
    IN  /\ counter' = s.counter
        /\ last' = [op |-> "select_prefer_local", llm_ids |-> llm_ids,
                    is_local |-> is_local, result |-> s.result]
        /\ trace' = Append(trace, last')
        /\ UNCHANGED <<pmVars, rules, logs, engVars, llm_registry, sender, providers,
                       capability_index, orch_lockdown_state>>

InitBalancer ==
    /\ InitEngine
    /\ budget = 0

\* a fresh balancer asked by select_round_robin only, MaxSelects times
round_robin_call(llm_ids) ==
    Len(trace) < MaxSelects /\ lb_select_round_robin(llm_ids)

NextRoundRobin == \E ids \in BalancerLists : round_robin_call(ids)

SpecRoundRobin == InitBalancer /\ [][NextRoundRobin]_vars

\* a fresh balancer asked MaxMixed times, by any of its three methods
mixed_round_robin(llm_ids) ==
    Len(trace) < MaxMixed /\ lb_select_round_robin(llm_ids)

mixed_least_loaded(llm_ids) ==
    Len(trace) < MaxMixed /\ lb_select_least_loaded(llm_ids)

mixed_prefer_local(llm_ids, is_local) ==
    Len(trace) < MaxMixed /\ lb_select_prefer_local(llm_ids, is_local)

NextBalancer ==
    \/ \E ids \in BalancerLists : mixed_round_robin(ids)
    \/ \E ids \in BalancerLists : mixed_least_loaded(ids)
    \/ \E ids \in BalancerLists, p \in LocalPredicates : mixed_prefer_local(ids, p)

SpecBalancer == InitBalancer /\ [][NextBalancer]_vars

\* every call so far was a select_round_robin over the list ids
OnlyRoundRobinOver(ids) ==
    \A k \in 1..Len(trace) :
        trace[k].op = "select_round_robin" /\ trace[k].llm_ids = ids

\* C14: on a fresh LoadBalancer, the k-th call (k from 0) of a run of
\* select_round_robin calls over one non-empty list returns ids[k mod len]; over
\* three ids the first six calls return a, b, c, a, b, c.
C14_RoundRobinCycles ==
    \A ids \in BalancerLists :
        ids # <<>> /\ OnlyRoundRobinOver(ids)
        => \A k \in 0..(Len(trace) - 1) :
              trace[k + 1].result = ids[(k % Len(ids)) + 1]

\* C14 witness: six calls over a, b, c have returned a, b, c, a, b, c
C14_Witness ==
    /\ Len(trace) = 6
    /\ OnlyRoundRobinOver(<<"a", "b", "c">>)
    /\ [k \in 1..6 |-> trace[k].result] = <<"a", "b", "c", "a", "b", "c">>

\* C15: select_prefer_local returns an id is_local holds for whenever the list
\* has one, an id it does not hold for only when the list is not empty and has
\* none, and none exactly when the list is empty; an id it returns is an element
\* of the list.
C15_PrefersLocal ==
    last.op = "select_prefer_local"
    => LET ids == {last.llm_ids[k] : k \in 1..Len(last.llm_ids)}
           r   == last.result
       IN  /\ ids \cap last.is_local # {} => r \in ids \cap last.is_local
           /\ r # None /\ r \notin last.is_local
                 => ids # {} /\ ids \cap last.is_local = {}
           /\ r = None <=> last.llm_ids = <<>>
           /\ r # None => r \in ids

\* C15 witness: after two counted calls, a list of one cloud and two local ids
\* has given a local id
C15_Witness ==
    /\ last.op = "select_prefer_local"
    /\ last.llm_ids = <<"cloud1", "local1", "local2">>
    /\ last.is_local = {"local1", "local2"}
    /\ last.result = "local1"
    /\ counter = 3

(***************************************************************************)
(* The message bus on its own: MessageBus::new(BusCapacity), then publish  *)
(* and subscribe calls, and the receivers' recv calls and drops, one at a  *)
(* time.                                                                   *)
(*                                                                         *)
(* sender is the tokio broadcast channel: buffer holds the values still    *)
(* retained, oldest first; pos is the number of values sent; rx maps each  *)
(* live receiver to the position of the value it reads next.  The receiver *)
(* broadcast::channel returns with the sender is dropped by new at once.   *)
(***************************************************************************)
\* the capacity MessageBus::new is given, and the calls made on the bus
BusCapacity == 2
MaxBusCalls == 7

\* broadcast::channel rounds the capacity up to a power of two
RECURSIVE next_power_of_two(_, _)
next_power_of_two(n, p) == IF p >= n THEN p ELSE next_power_of_two(n, 2 * p)

channel_capacity == next_power_of_two(BusCapacity, 1)

\* a faulty variant: a send with no receiver succeeds
send_fails_never == FALSE

\* broadcast::Sender::send fails when no receiver is alive
send_fails == DOMAIN sender.rx = {}

\* a faulty variant: a new receiver starts at the oldest retained value
subscribe_next_oldest == sender.pos - Len(sender.buffer)

\* broadcast::Sender::subscribe: the new receiver reads next what is sent next
subscribe_next == sender.pos

BusMessages == {"m1", "m2"}
Receivers == {"rx1", "rx2"}

BusCall(c) ==
    /\ Len(trace) < MaxBusCalls
    /\ last' = c
    /\ trace' = Append(trace, c)
    /\ UNCHANGED <<pmVars, rules, logs, engVars, llm_registry, counter, providers,
                   capability_index, orch_lockdown_state>>

\* a faulty variant: publish waits while a receiver has a full backlog
publish_waiting(message) ==
    /\ \A rid \in DOMAIN sender.rx : sender.pos - sender.rx[rid] < channel_capacity
    /\ IF send_fails
       THEN /\ sender' = sender
            /\ BusCall([op |-> "publish", message |-> message,
                        result |-> Err("publish", "Other", "Failed to send message")])
       ELSE /\ sender' =
                 [sender EXCEPT
                    !.buffer = LET b == Append(@, message)
                               IN  IF Len(b) > channel_capacity THEN Tail(b) ELSE b,
                    !.pos = @ + 1]
            /\ BusCall([op |-> "publish", message |-> message,
                        result |-> Ok("publish", "unit")])

\* MessageBus::publish
publish(message) ==
    IF send_fails
    THEN /\ sender' = sender
         /\ BusCall([op |-> "publish", message |-> message,
                     result |-> Err("publish", "Other", "Failed to send message")])
    ELSE /\ sender' =
              [sender EXCEPT
                 !.buffer = LET b == Append(@, message)
                            IN  IF Len(b) > channel_capacity THEN Tail(b) ELSE b,
                 !.pos = @ + 1]
         /\ BusCall([op |-> "publish", message |-> message,
                     result |-> Ok("publish", "unit")])

\* MessageBus::subscribe; a receiver name is used for one receiver
subscribe(rid) ==
    /\ \A k \in 1..Len(trace) : trace[k].op = "subscribe" => trace[k].rid # rid
    /\ sender' = [sender EXCEPT !.rx = MapPut(@, rid, subscribe_next)]
    /\ BusCall([op |-> "subscribe", rid |-> rid])

\* broadcast::Receiver::recv, when it returns: a receiver that has read
\* everything sent waits
recv(rid) ==
    /\ rid \in DOMAIN sender.rx
    /\ sender.rx[rid] < sender.pos
    /\ LET next   == sender.rx[rid]
           oldest == sender.pos - Len(sender.buffer)
       IN  IF next < oldest
           THEN /\ sender' = [sender EXCEPT !.rx[rid] = oldest]
                /\ BusCall([op |-> "recv", rid |-> rid,
                            result |-> Err("recv", "Lagged", oldest - next)])
           ELSE /\ sender' = [sender EXCEPT !.rx[rid] = next + 1]
                /\ BusCall([op |-> "recv", rid |-> rid,
                            result |-> Ok("recv", sender.buffer[next - oldest + 1])])

\* the owner of a receiver drops it
drop_receiver(rid) ==
    /\ rid \in DOMAIN sender.rx
    /\ sender' = [sender EXCEPT !.rx = MapRemove(@, rid)]
    /\ BusCall([op |-> "drop", rid |-> rid])

InitBus ==
    /\ InitEngine
    /\ budget = 0

NextBus ==
    \/ \E m \in BusMessages : publish(m)
    \/ \E rid \in Receivers : subscribe(rid)
    \/ \E rid \in Receivers : recv(rid)
    \/ \E rid \in Receivers : drop_receiver(rid)

SpecBus == InitBus /\ [][NextBus]_vars

\* the messages of the calls of t that pass Test, in order
MessagesOf(t, Test(_)) ==
    LET s == SelectSeq(t, Test)
    IN  [k \in 1..Len(s) |-> IF s[k].op = "recv" THEN s[k].result.value ELSE s[k].message]

\* what receiver rid has received, and what was published after it subscribed
Received(rid) ==
    LET Test(c) == c.op = "recv" /\ c.rid = rid /\ c.result.ok
    IN  MessagesOf(trace, Test)

PublishedAfterSubscribe(rid) ==
    LET at == CHOOSE k \in 1..Len(trace) : trace[k].op = "subscribe" /\ trace[k].rid = rid
        Test(c) == c.op = "publish" /\ c.result.ok
    IN  MessagesOf(SubSeq(trace, at + 1, Len(trace)), Test)

HasSubscribed(rid) == \E k \in 1..Len(trace) : trace[k].op = "subscribe" /\ trace[k].rid = rid

HasLagged(rid) ==
    \E k \in 1..Len(trace) : trace[k].op = "recv" /\ trace[k].rid = rid /\ ~trace[k].result.ok

\* C16: a receiver that has not lagged has received, in publish order and each
\* once, the first of the messages published after its subscribe() call, and
\* none published before; when it has nothing left to read it has received
\* every message published while it was subscribed.
C16_ReceivesWhatFollowsSubscribe ==
    \A rid \in Receivers :
        HasSubscribed(rid) /\ ~HasLagged(rid)
        => LET got == Received(rid)
               pub == PublishedAfterSubscribe(rid)
           IN  /\ Len(got) <= Len(pub)
               /\ got = SubSeq(pub, 1, Len(got))
               /\ rid \in DOMAIN sender.rx /\ sender.rx[rid] = sender.pos => got = pub

\* C16 witness: rx2 subscribed after m1 was published to rx1, m2 was published
\* then, and both have read all: rx1 m1 then m2, rx2 m2 alone
C16_Witness ==
    /\ Received("rx1") = <<"m1", "m2">>
    /\ HasSubscribed("rx2")
    /\ Received("rx2") = <<"m2">>
    /\ sender.rx = [r \in Receivers |-> sender.pos]

\* a publish call returns
PublishStep ==
    /\ Len(trace') = Len(trace) + 1
    /\ trace'[Len(trace')].op = "publish"

\* C17: publish returns an error if and only if no receiver is alive at the
\* call, be it that nobody has subscribed or that every receiver was dropped,
\* and then the channel keeps nothing of the message; with a live receiver it
\* returns Ok.
C17_PublishFailsIffNoReceiver ==
    [][PublishStep
         => /\ ~last'.result.ok <=> DOMAIN sender.rx = {}
            /\ ~last'.result.ok => sender' = sender]_vars

\* C17 witness: a publish has failed after the one receiver was dropped
C17_Witness ==
    /\ last.op = "publish"
    /\ ~last.result.ok
    /\ \E k \in 1..Len(trace) : trace[k].op = "drop"
    /\ \E k \in 1..Len(trace) : trace[k].op = "publish" /\ trace[k].result.ok

(***************************************************************************)
(* The pool on its own: LLMPool::new(), then register, unregister and      *)
(* find_by_capability calls made one at a time.  A provider is held as the *)
(* LLMInstance its instance() returns.                                     *)
(***************************************************************************)
MaxPoolCalls == 4

\* register's loop over capabilities, from the k-th on:
\* self.capability_index.entry(cap).or_insert_with(Vec::new).push(id.clone())
RECURSIVE index_push(_, _, _, _)
index_push(index, capabilities, k, id) ==
    IF k > Len(capabilities) THEN index
    ELSE LET cap == capabilities[k]
             ids == IF cap \in DOMAIN index THEN index[cap] ELSE <<>>
         IN  index_push(MapPut(index, cap, Append(ids, id)), capabilities, k + 1, id)

\* unregister's loop over the removed provider's capabilities, from the k-th on:
\* ids.retain(|id| id != llm_id) where the index has the capability
RECURSIVE index_retain(_, _, _, _)
index_retain(index, capabilities, k, llm_id) ==
    IF k > Len(capabilities) THEN index
    ELSE LET cap == capabilities[k]
             Keep(id) == id # llm_id
         IN  index_retain(IF cap \in DOMAIN index
                          THEN MapPut(index, cap, SelectSeq(index[cap], Keep))
                          ELSE index,
                          capabilities, k + 1, llm_id)

\* LLMPool::find_by_capability: ids.iter().filter_map(|id| self.get(id)).collect()
find_by_capability(capability) ==
    IF capability \in DOMAIN capability_index
    THEN LET Held(id) == id \in DOMAIN providers
             ids == SelectSeq(capability_index[capability], Held)
         IN  [k \in 1..Len(ids) |-> providers[ids[k]]]
    ELSE <<>>

PoolInstances ==
    { LLMInstance(id, caps, TRUE) :
        id \in {"llm-1", "llm-2"},
        caps \in {<<"Code">>, <<"Analysis">>, <<"Code", "Analysis">>} }

PoolCall(c) ==
    /\ Len(trace) < MaxPoolCalls
    /\ last' = c
    /\ trace' = Append(trace, c)
    /\ UNCHANGED <<pmVars, rules, logs, engVars, llm_registry, counter, sender,
                   orch_lockdown_state>>

\* LLMPool::register
register(instance) ==
    /\ providers' = MapPut(providers, instance.id, instance)
    /\ capability_index' =
          index_push(capability_index, instance.capabilities, 1, instance.id)
    /\ PoolCall([op |-> "register", id |-> instance.id, result |-> Ok("register", "unit")])

\* LLMPool::unregister
unregister(llm_id) ==
    IF llm_id \in DOMAIN providers
    THEN /\ providers' = MapRemove(providers, llm_id)
         /\ capability_index' =
               index_retain(capability_index, providers[llm_id].capabilities, 1, llm_id)
         /\ PoolCall([op |-> "unregister", id |-> llm_id,
                      result |-> Ok("unregister", "unit")])
    ELSE /\ UNCHANGED <<providers, capability_index>>
         /\ PoolCall([op |-> "unregister", id |-> llm_id,
                      result |-> Err("unregister", "LLMNotFound", llm_id)])

\* LLMPool::find_by_capability, called
p_find_by_capability(capability) ==
    /\ UNCHANGED <<providers, capability_index>>
    /\ PoolCall([op |-> "find_by_capability", capability |-> capability,
                 result |-> Ok("find_by_capability", find_by_capability(capability))])

InitPool ==
    /\ InitEngine
    /\ budget = 0

NextPool ==
    \/ \E i \in PoolInstances : register(i)
    \/ \E id \in {"llm-1", "llm-2"} : unregister(id)
    \/ \E cap \in {"Code", "Analysis"} : p_find_by_capability(cap)

SpecPool == InitPool /\ [][NextPool]_vars

\* C18 as claimed: after any register and unregister calls, an id registered
\* again included, find_by_capability(cap) returns exactly the registered
\* instances that declare cap, each once; and when unregister(id) has succeeded
\* no entry of the capability index holds id.
C18_IndexMatchesProviders ==
    /\ last.op = "find_by_capability"
       => LET found == last.result.value
          IN  /\ \A id \in DOMAIN providers :
                    last.capability \in Declared(providers[id])
                    <=> \E k \in 1..Len(found) : found[k] = providers[id]
              /\ \A j, k \in 1..Len(found) : found[j] = found[k] => j = k
              /\ \A k \in 1..Len(found) :
                    /\ found[k].id \in DOMAIN providers
                    /\ found[k] = providers[found[k].id]
    /\ last.op = "unregister" /\ last.result.ok
       => \A cap \in DOMAIN capability_index :
             \A k \in 1..Len(capability_index[cap]) : capability_index[cap][k] # last.id

(***************************************************************************)
(* PermissionManager: scope overrides                                      *)
(***************************************************************************)
\* C19: when an override scope is set for an actor, every check_permission for
\* that actor is decided from the override alone, whatever the request kind and
\* whatever the global scope is or has become; an actor without an override is
\* decided from the global scope alone.
C19_OverrideReplacesGlobal ==
    last.op = "check_permission"
    => /\ last.llm_id \in DOMAIN llm_scopes
            => last.granted = granted_by(llm_scopes[last.llm_id], last.permission)
       /\ last.llm_id \notin DOMAIN llm_scopes
            => last.granted = granted_by(global_scope, last.permission)

\* C19 witness: with the default scope as the global one, which has no read path
\* for it, an actor whose override lists /etc/hosts has been granted its read,
\* the other actor having no override
C19_Witness ==
    /\ last.op = "check_permission"
    /\ global_scope = DefaultScope
    /\ DOMAIN llm_scopes = {last.llm_id}
    /\ llm_scopes[last.llm_id] = ScopeNarrow
    /\ last.permission = FileRead("/etc/hosts")
    /\ last.granted
    /\ ~granted_by(global_scope, last.permission)

(***************************************************************************)
(* The orchestrator: Orchestrator::new(), then run's loop, which hands the *)
(* messages it receives to handle_message one after another and ends at    *)
(* the first Err.  The orchestrator's router is its own and nothing        *)
(* registers an instance with it.                                          *)
(***************************************************************************)
MaxHandled == 3

OrchMessages ==
    {[type |-> "UserRequest"], [type |-> "LLMResponse"]}
    \cup {[type |-> "LLMDelegation", to |-> to, required_capabilities |-> <<"Code">>] :
            to \in {None, "llm-1"}}
    \cup {[type |-> "SecurityAlert", suggested_action |-> a] :
            a \in {"Allow", "Deny", "Lockdown", "RequestHumanReview"}}
    \cup {[type |-> "StateChange", change_type |-> c] :
            c \in {"LockdownTriggered", "LockdownReleased", "LLMLoaded",
                   "PermissionDenied"}}

\* a faulty variant: the message is dispatched without a look at the lockdown
\* state
handled_state_unchecked(message) ==
    CASE message.type = "SecurityAlert" /\ message.suggested_action = "Lockdown"
           -> "Locked"
      [] message.type = "StateChange" /\ message.change_type = "LockdownTriggered"
           -> "Locked"
      [] message.type = "StateChange" /\ message.change_type = "LockdownReleased"
           -> "Normal"
      [] OTHER -> orch_lockdown_state

\* handle_message, handle_security_alert and handle_state_change: the local
\* lockdown state after the message; a Locked orchestrator rejects the message
\* before looking at it
handled_state(message) ==
    IF orch_lockdown_state = "Locked" THEN orch_lockdown_state
    ELSE CASE message.type = "SecurityAlert" /\ message.suggested_action = "Lockdown"
                -> "Locked"
           [] message.type = "StateChange" /\ message.change_type = "LockdownTriggered"
                -> "Locked"
           [] message.type = "StateChange" /\ message.change_type = "LockdownReleased"
                -> "Normal"
           [] OTHER -> orch_lockdown_state

\* handle_message and handle_llm_delegation: the router is read for a message
\* that is dispatched, is a delegation and names no target
consults_router(message) ==
    /\ orch_lockdown_state # "Locked"
    /\ message.type = "LLMDelegation"
    /\ message.to = None

\* what handle_message may return: handle_llm_delegation passes on the error of
\* route_task when the message names no target
handle_results(message) ==
    IF consults_router(message)
    THEN {IF r.ok THEN Ok("handle_message", "unit") ELSE r :
             r \in route_task(message.required_capabilities)}
    ELSE {Ok("handle_message", "unit")}

\* run's loop takes a message and handle_message handles it
handle_message(message) ==
    /\ Len(trace) < MaxHandled
    /\ trace # <<>> => trace[Len(trace)].result.ok
    /\ orch_lockdown_state' = handled_state(message)
    /\ \E r \in handle_results(message) :
          last' = [op |-> "handle_message", message |-> message, result |-> r,
                   routed |-> consults_router(message)]
    /\ trace' = Append(trace, last')
    /\ UNCHANGED <<pmVars, rules, logs, engVars, llm_registry, counter, sender,
                   providers, capability_index>>

InitOrchestrator ==
    /\ InitEngine
    /\ budget = 0

NextOrchestrator == \E m \in OrchMessages : handle_message(m)

SpecOrchestrator == InitOrchestrator /\ [][NextOrchestrator]_vars

\* C20 as claimed: when the orchestrator has handled a StateChange message, its
\* local lockdown state is Locked for LockdownTriggered and Normal for
\* LockdownReleased, whatever it was when the message arrived.
C20_StateChangeMirrored ==
    [][Len(trace') = Len(trace) + 1 /\ last'.message.type = "StateChange"
         => /\ last'.message.change_type = "LockdownTriggered"
                  => orch_lockdown_state' = "Locked"
            /\ last'.message.change_type = "LockdownReleased"
                  => orch_lockdown_state' = "Normal"]_vars

(***************************************************************************)
(* The lockdown states of the engine and of the orchestrator: one caller   *)
(* of the engine, whose calls are long enough for an escalation and a      *)
(* release after it, beside run's loop of the orchestrator                 *)
(***************************************************************************)
LockdownCalls ==
    { CheckPermissionCall("llm-a", ReqDenied),
      TriggerLockdownCall([kind |-> "UserPanicButton"]),
      ReleaseLockdownCall("token"),
      ReleaseLockdownCall("") }

\* the messages that touch the local lockdown state, and one that does not
LockdownMessages ==
    { [type |-> "SecurityAlert", suggested_action |-> "Lockdown"],
      [type |-> "StateChange", change_type |-> "LockdownTriggered"],
      [type |-> "StateChange", change_type |-> "LockdownReleased"],
      [type |-> "UserRequest"] }

lockdown_call(t) ==
    /\ t = EscalationCaller
    /\ pc[t] = "idle"
    /\ \E c \in LockdownCalls : StartCall(t, c)

NextLockdown ==
    \/ \E t \in Tasks :
          \/ lockdown_call(t)
          \/ cp_lock(t) \/ cp_check(t) \/ cp_audit(t) \/ cp_count(t)
          \/ tl_lock(t) \/ tl_audit(t)
          \/ rl_lock(t) \/ rl_audit(t)
    \/ \E m \in LockdownMessages : handle_message(m)

SpecLockdown == InitEscalation /\ [][NextLockdown]_vars

C21_NeverReadOnly ==
    /\ lockdown_state \in {"Normal", "Locked"}
    /\ orch_lockdown_state \in {"Normal", "Locked"}

C21_OnlyTriggerLocks ==
    lockdown_state # "Locked" /\ lockdown_state' = "Locked"
        => \E t \in Tasks :
              /\ pc[t] = "tl_lock" /\ Steps(t)
              /\ call[t].op \in {"trigger_lockdown", "check_permission"}

C21_OnlyReleaseUnlocks ==
    lockdown_state # "Normal" /\ lockdown_state' = "Normal"
        => \E t \in Tasks :
              /\ pc[t] = "rl_lock" /\ Steps(t)
              /\ call[t].op = "release_lockdown"
              /\ call[t].auth_token # ""
              /\ pc'[t] = "rl_audit"

\* C21: the engine's lockdown state is Normal at first and Normal or Locked, never
\* ReadOnly, in every reachable state; a step that makes it Locked is the write of
\* a trigger_lockdown, called by a caller or by an escalating check_permission; a
\* step that makes it Normal is the write of a release_lockdown whose token was
\* accepted; and the orchestrator's local lockdown state is never ReadOnly either.
C21_LockdownStates ==
    /\ lockdown_state = "Normal"
    /\ []C21_NeverReadOnly
    /\ [][C21_OnlyTriggerLocks /\ C21_OnlyReleaseUnlocks]_vars

\* C21 witness: an escalation locked the engine, a release has brought it back to
\* Normal, and the orchestrator is Locked
C21_Witness ==
    /\ lockdown_state = "Normal"
    /\ orch_lockdown_state = "Locked"
    /\ pc[EscalationCaller] = "idle"
    /\ ret[EscalationCaller].op = "release_lockdown" /\ ret[EscalationCaller].ok
    /\ \E i \in 1..Len(logs) :
          /\ logs[i].action = "Lockdown triggered"
          /\ logs[i].details.reason.kind = "MultipleFailedRequests"

(***************************************************************************)
(* Concurrent writers and readers of the engine's lockdown state           *)
(***************************************************************************)
\* tasks t and u have both returned, t from a trigger_lockdown and u from a
\* release_lockdown that was given a token
BothReturned(t, u) ==
    /\ t # u
    /\ pc[t] = "idle" /\ ret[t].op = "trigger_lockdown" /\ ret[t].ok
    /\ pc[u] = "idle" /\ ret[u].op = "release_lockdown" /\ ret[u].ok

\* C22: once a trigger_lockdown and a release_lockdown with a non-empty token,
\* made by two tasks, have both returned, the lockdown state is what the later of
\* their two writes wrote: Locked when the trigger wrote last, Normal when the
\* release did; this holds in particular when one of them waited for the write
\* guard while the other wrote.
C22_LastWriterWins ==
    \A t, u \in Tasks :
        BothReturned(t, u)
            => /\ hist.last_write.task \in {t, u}
               /\ hist.last_write.value =
                      IF hist.last_write.task = t THEN "Locked" ELSE "Normal"
               /\ lockdown_state = hist.last_write.value

\* C22 witness: the two calls were the only ones made, the release wrote while
\* the trigger was waiting for the guard, and the trigger, writing last, won
C22_Witness ==
    \E t, u \in Tasks :
        /\ BothReturned(t, u)
        /\ budget = MaxCalls - 2
        /\ hist.race
        /\ hist.last_write.task = t
        /\ lockdown_state = "Locked"

\* the other order: the trigger wrote while the release was waiting, and the
\* release, writing last, won
C22_ReleaseWins ==
    \E t, u \in Tasks :
        /\ BothReturned(t, u)
        /\ budget = MaxCalls - 2
        /\ hist.race
        /\ hist.last_write.task = u
        /\ lockdown_state = "Normal"

\* task t has swapped the lockdown state and has not appended its audit entry yet
AuditPending(t) == pc[t] \in {"tl_audit", "rl_audit"}

\* C23 as claimed: trigger_lockdown and release_lockdown give up the exclusive
\* lock on the lockdown state before they append their audit entry, so that a
\* lockdown_state() or check_permission call of another task that is about to
\* read the lockdown state can read it while that append has not happened yet.
C23_ReadableWhileAuditPending ==
    \A t, u \in Tasks :
        /\ AuditPending(t)
        /\ pc[u] \in {"ls_read", "cp_lock"}
        => /\ lockdown_writer # t
           /\ ENABLED (ls_read(u) \/ cp_lock(u))

(***************************************************************************)
(* Permission checks of one actor by two concurrent callers, with resets   *)
(* of its failure count, long enough to pass the failure threshold         *)
(***************************************************************************)
DenialCalls ==
    { CheckPermissionCall("llm-a", ReqDenied),
      CheckPermissionCall("llm-a", ReqGranted),
      ResetFailedCountCall("llm-a") }

denial_call(t) == \E c \in DenialCalls : StartCall(t, c)

NextDenials ==
    \E t \in Tasks :
        \/ denial_call(t)
        \/ cp_lock(t) \/ cp_check(t) \/ cp_audit(t) \/ cp_count(t)
        \/ tl_lock(t) \/ tl_audit(t)
        \/ rf_run(t)

SpecDenials == InitEscalation /\ [][NextDenials]_vars

\* e is the entry check_permission logs for call c
IsRequestEntry(e, c) ==
    /\ e.action = "Permission request"
    /\ e.llm_id = c.llm_id
    /\ e.details.permission = c.permission
    /\ e.approved = c.granted
    /\ (e.reason # None) <=> ~c.granted

\* e is the entry trigger_lockdown logs
IsTriggeredEntry(e) == e.action = "Lockdown triggered" /\ ~e.approved

\* the steps of a check_permission that found the state not Locked, but for the
\* step that decides on the escalation: the decision is logged in one entry, and
\* it is the only entry of the call unless the call escalates; a granted call
\* returns Ok(true) as it logs; an escalating call logs the lockdown after the
\* decision and returns Ok(false) as it does
C24_StepsOfCheck(t) ==
    LET c == call[t]
        Request(e) == IsRequestEntry(e, c)
    IN  CASE pc[t] = "cp_lock" -> logs' = logs
          [] pc[t] = "cp_check" -> logs' = logs /\ pc'[t] = "cp_audit"
          [] pc[t] = "cp_audit" ->
                /\ AppendsOne(Request)
                /\ IF c.granted
                   THEN pc'[t] = "idle" /\ ret'[t] = Ok("check_permission", TRUE)
                   ELSE pc'[t] = "cp_count"
          [] pc[t] = "tl_lock" -> logs' = logs /\ pc'[t] = "tl_audit"
          [] pc[t] = "tl_audit" ->
                /\ AppendsOne(IsTriggeredEntry)
                /\ pc'[t] = "idle" /\ ret'[t] = Ok("check_permission", FALSE)
          [] OTHER -> TRUE

FailedCountIn(failed, llm_id) ==
    IF llm_id \in DOMAIN failed THEN failed[llm_id] ELSE 0

\* the counters of all actors but llm_id are what they were
OthersKeepCount(llm_id) ==
    \A b \in Actors \ {llm_id} :
        FailedCountIn(failed_requests', b) = FailedCountIn(failed_requests, b)

\* C25: a check_permission of the permission manager that denies raises the
\* asking actor's failure counter by exactly one, and one that grants leaves every
\* counter as it was; neither changes another actor's counter; a counter goes down
\* only in reset_failed_count of that actor, which makes it 0 and leaves the other
\* counters as they were.
C25_CountersFollowDenials ==
    [][/\ last'.op = "check_permission"
            => IF last'.granted
               THEN failed_requests' = failed_requests
               ELSE /\ FailedCountIn(failed_requests', last'.llm_id)
                          = FailedCountIn(failed_requests, last'.llm_id) + 1
                    /\ OthersKeepCount(last'.llm_id)
       /\ last'.op = "reset_failed_count"
            => /\ FailedCountIn(failed_requests', last'.llm_id) = 0
               /\ OthersKeepCount(last'.llm_id)
       /\ \A a \in Actors :
             FailedCountIn(failed_requests', a) < FailedCountIn(failed_requests, a)
                 => last'.op = "reset_failed_count" /\ last'.llm_id = a]_vars

\* C25 witness: a denial has just made an actor's counter 1 while the other
\* actor's counter stands at the most the scenario counts
C25_Witness ==
    /\ last.op = "check_permission"
    /\ ~last.granted
    /\ FailedCountIn(failed_requests, last.llm_id) = 1
    /\ \E b \in Actors \ {last.llm_id} : FailedCountIn(failed_requests, b) = MaxTracked

\* C26: a check_permission that finds the state Locked returns Ok(false) in that
\* step, whoever asks and whatever is asked, without calling the permission
\* manager: every failure counter and every scope is as it was, so a request
\* refused during lockdown is not counted against any actor.
C26_LockedCheckTouchesNothing ==
    [][\A t \in Tasks :
          /\ call[t].op = "check_permission"
          /\ pc[t] = "cp_lock"
          /\ Steps(t)
          /\ lockdown_state = "Locked"
          => /\ pc'[t] = "idle"
             /\ ret'[t] = Ok("check_permission", FALSE)
             /\ failed_requests' = failed_requests
             /\ global_scope' = global_scope
             /\ llm_scopes' = llm_scopes]_vars

\* C26 witness: a request the scope refuses was made during lockdown and has been
\* refused; no permission request was ever decided and no count is held
C26_Witness ==
    \E t \in Tasks :
        /\ pc[t] = "idle"
        /\ ret[t].op = "check_permission" /\ ret[t].ok /\ ret[t].value = FALSE
        /\ call[t].permission = ReqDenied
        /\ ~granted_by(get_scope(call[t].llm_id), call[t].permission)
        /\ lockdown_state = "Locked"
        /\ failed_requests = EmptyMap
        /\ ~hist.cleared
        /\ \A i \in 1..Len(logs) : logs[i].action # "Permission request"

\* C27: analyze_command, in one step, appends exactly one entry to the audit log,
\* a Command analysis whose approved flag is the safe flag of the analysis, and
\* returns that analysis, which is the guardrails' analysis of the command; the
\* lockdown state and every failure counter are as they were, whatever the risk
\* level and whether the state is Normal or Locked.
C27_AnalysisAuditedOnly ==
    [][\A t \in Tasks :
          call[t].op = "analyze_command" /\ Steps(t)
              => LET analysis == analyze_command(rule_names(default_rules),
                                                 call[t].command)
                     Analysed(e) ==
                         /\ e.action = "Command analysis"
                         /\ e.llm_id = None
                         /\ e.details.command = call[t].command
                         /\ e.approved = analysis.safe
                 IN  /\ pc'[t] = "idle"
                     /\ ret'[t] = Ok("analyze_command", analysis)
                     /\ AppendsOne(Analysed)
                     /\ lockdown_state' = lockdown_state
                     /\ failed_requests' = failed_requests]_vars

\* C27 witness: a command of Critical risk has been analysed while the state was
\* Normal and the state is still Normal; the entry logged is not approved
C27_Witness ==
    \E t \in Tasks :
        /\ pc[t] = "idle"
        /\ ret[t].op = "analyze_command" /\ ret[t].ok
        /\ ret[t].value.risk_level = "Critical"
        /\ ~ret[t].value.safe
        /\ lockdown_state = "Normal"
        /\ ~hist.cleared
        /\ logs # <<>>
        /\ \A i \in 1..Len(logs) : logs[i].action = "Command analysis"
        /\ ~logs[Len(logs)].approved

\* a command has been analysed and audited while the state was Locked
C27_AnalysedWhileLocked ==
    \E t \in Tasks :
        /\ pc[t] = "idle"
        /\ ret[t].op = "analyze_command" /\ ret[t].ok
        /\ lockdown_state = "Locked"
        /\ Len(logs) >= 2
        /\ logs[Len(logs) - 1].action = "Lockdown triggered"
        /\ logs[Len(logs)].action = "Command analysis"

(***************************************************************************)
(* Network requests: the permission manager under scopes that differ in    *)
(* their network permissions only                                          *)
(***************************************************************************)
NetUrls == {"https://example.com", "http://10.0.0.1/admin", ""}

NetApprovals == {<<"*">>, <<>>, <<"https://example.com">>}

NetScopes ==
    { [DefaultScope EXCEPT !.network =
           [inbound |-> i, outbound |-> o, require_approval |-> r]] :
        i \in BOOLEAN, o \in BOOLEAN, r \in NetApprovals }

\* the actor whose scope is overridden
NetOverridden == "llm-a"

NextNetwork ==
    \/ \E a \in Actors, u \in NetUrls : pm_check_permission(a, NetworkAccess(u))
    \/ \E a \in Actors : pm_reset_failed_count(a)
    \/ \E s \in NetScopes : pm_set_global_scope(s)
    \/ \E s \in NetScopes : pm_set_llm_scope(NetOverridden, s)

SpecNetwork == InitPermissions /\ [][NextNetwork]_vars

C28_Refused ==
    /\ last.op = "check_permission"
    /\ last.permission.type = "NetworkAccess"
    /\ ~last.scope.network.inbound /\ ~last.scope.network.outbound
    /\ ~last.granted

(***************************************************************************)
(* File requests                                                           *)
(***************************************************************************)
\* the path list a file request is checked against
PathListOf(scope, permission) ==
    CASE permission.type = "FileRead"    -> scope.file_system.read_paths
      [] permission.type = "FileWrite"   -> scope.file_system.write_paths
      [] permission.type = "FileExecute" -> scope.file_system.execute_paths

\* the matching the claim describes
MatchesAsDescribed(pattern, path) ==
    LET n == Len(pattern)
        HasStar == \E i \in 1..n : SubSeq(pattern, i, i) = "*"
    IN  IF n >= 2 /\ SubSeq(pattern, n - 1, n) = "/*"
        THEN /\ Len(path) >= n - 2
             /\ SubSeq(path, 1, n - 2) = SubSeq(pattern, 1, n - 2)
        ELSE IF HasStar THEN TRUE
        ELSE pattern = path

C29_EmptyListDenies ==
    /\ last.op = "check_permission"
    /\ last.permission.type = "FileWrite"
    /\ last.scope.file_system.write_paths = <<>>
    /\ ~last.granted

\* a path has been granted by a pattern with an inner "*" that is not spelled in it
C29_InnerStarMatchesAll ==
    /\ last.op = "check_permission"
    /\ last.permission = FileRead("/etc/passwd")
    /\ last.scope = ScopeOpen
    /\ last.granted

(***************************************************************************)
(* Slow receivers of the message bus                                       *)
(***************************************************************************)
\* how many of the messages published after its subscribe() the recv calls of
\* rid among the first k calls have taken off its backlog: one for a message
\* received, n for a Lagged(n)
RECURSIVE TakenOff(_, _)
TakenOff(rid, k) ==
    IF k = 0 THEN 0
    ELSE LET c == trace[k]
         IN  TakenOff(rid, k - 1)
             + (IF c.op = "recv" /\ c.rid = rid
                THEN IF c.result.ok THEN 1 ELSE c.result.value.msg
                ELSE 0)

\* the messages published after rid subscribed that it has neither received nor
\* been told it missed, oldest first
Unread(rid) ==
    LET pub == PublishedAfterSubscribe(rid)
    IN  SubSeq(pub, TakenOff(rid, Len(trace)) + 1, Len(pub))

\* a call can still be made in the scenario
BusOpen == Len(trace) < MaxBusCalls

C30_PublishNeverWaits ==
    BusOpen => \A m \in BusMessages : ENABLED publish(m)

\* a recv of rid returns in this step
RecvStep(rid) ==
    /\ Len(trace') = Len(trace) + 1
    /\ last'.op = "recv"
    /\ last'.rid = rid

C30_LagDropsOldestOnly ==
    \A rid \in Receivers :
        RecvStep(rid)
            => LET unread == Unread(rid)
               IN  IF Len(unread) > channel_capacity
                   THEN /\ ~last'.result.ok
                        /\ last'.result.value.kind = "Lagged"
                        /\ last'.result.value.msg = Len(unread) - channel_capacity
                   ELSE /\ unread # <<>>
                        /\ last'.result.ok
                        /\ last'.result.value = Head(unread)

\* C30: publish can always be completed, whatever the receivers have left unread;
\* a recv of a receiver whose unread messages are more than the channel holds
\* reports that it lagged by the excess, which is the oldest of them and all it
\* loses; every other recv returns the oldest unread message, so that after
\* lagging the receiver gets the retained messages in publish order; and what a
\* receiver gets depends on its own backlog only.
C30_SlowReceiverLosesOldest ==
    /\ []C30_PublishNeverWaits
    /\ [][C30_LagDropsOldestOnly]_vars

\* C30 witness: three messages were published to a receiver of a channel that
\* holds two; it was told it had lagged by one and has then received the second
\* and the third
C30_Witness ==
    \E rid \in Receivers :
        /\ HasSubscribed(rid)
        /\ PublishedAfterSubscribe(rid) = <<"m1", "m2", "m1">>
        /\ \E k \in 1..Len(trace) :
              /\ trace[k].op = "recv" /\ trace[k].rid = rid
              /\ ~trace[k].result.ok
              /\ trace[k].result.value.kind = "Lagged"
              /\ trace[k].result.value.msg = 1
        /\ Received(rid) = <<"m2", "m1">>
        /\ Unread(rid) = <<>>

\* a receiver that kept up has received everything while the other one lagged
C30_OtherUnaffected ==
    \E slow, quick \in Receivers :
        /\ slow # quick
        /\ HasLagged(slow)
        /\ HasSubscribed(quick) /\ ~HasLagged(quick)
        /\ Received(quick) # <<>>
        /\ Received(quick) = PublishedAfterSubscribe(quick)

(***************************************************************************)
(* The pool under concurrent callers.  A call advances one DashMap         *)
(* operation at a time: each operation locks the entry it works on and     *)
(* nothing else, and no lock spans the two maps but the guard              *)
(* find_by_capability holds on the index entry it iterates over.  pc, call *)
(* and ret are those of the tasks that call the pool.                      *)
(***************************************************************************)
\* calls started by the concurrent callers of the pool
MaxRaceCalls == 3

RaceInstance == LLMInstance("llm-1", <<"Code", "Analysis">>, TRUE)

RegisterCall(instance) == [op |-> "register", instance |-> instance, k |-> 1]
UnregisterCall(llm_id) ==
    [op |-> "unregister", llm_id |-> llm_id, capabilities |-> <<>>, k |-> 1]
FindCall(capability) ==
    [ op |-> "find_by_capability", capability |-> capability, ids |-> <<>>,
      k |-> 1, found |-> <<>> ]

RaceCalls ==
    { RegisterCall(RaceInstance), UnregisterCall(RaceInstance.id),
      FindCall("Code"), FindCall("Analysis") }

\* a caller starts call c on task t
pool_start(t, c) ==
    /\ pc[t] = "idle"
    /\ budget > 0
    /\ budget' = budget - 1
    /\ pc' = [pc EXCEPT ![t] = CASE c.op = "register" -> "pr_insert"
                                 [] c.op = "unregister" -> "pu_remove"
                                 [] c.op = "find_by_capability" -> "pf_index"]
    /\ call' = [call EXCEPT ![t] = c]
    /\ ret' = [ret EXCEPT ![t] = NoRet]
    /\ UNCHANGED <<pmVars, rules, logs, lockdown_state, lockdown_writer, hist, last,
                   platformVars>>

\* a find_by_capability holds the guard of the index entry of capability
EntryRead(capability) ==
    \E u \in Tasks : pc[u] = "pf_get" /\ call[u].capability = capability

\* register, line 35: self.providers.insert(id.clone(), Arc::new(provider))
pr_insert(t) ==
    /\ pc[t] = "pr_insert"
    /\ providers' = MapPut(providers, call[t].instance.id, call[t].instance)
    /\ IF call[t].instance.capabilities = <<>>
       THEN Return(t, Ok("register", "unit"))
       ELSE Goto(t, "pr_push")
    /\ UNCHANGED <<pmVars, rules, logs, lockdown_state, lockdown_writer, call, budget,
                   hist, last, llm_registry, counter, sender, capability_index,
                   orch_lockdown_state, trace>>

\* register, lines 38-45: one turn of the loop pushes the id under a capability
pr_push(t) ==
    /\ pc[t] = "pr_push"
    /\ LET c == call[t]
           cap == c.instance.capabilities[c.k]
       IN  /\ ~EntryRead(cap)
           /\ capability_index' =
                 index_push(capability_index, <<cap>>, 1, c.instance.id)
           /\ call' = [call EXCEPT ![t].k = @ + 1]
           /\ IF c.k = Len(c.instance.capabilities)
              THEN Return(t, Ok("register", "unit"))
              ELSE Goto(t, "pr_push")
    /\ UNCHANGED <<pmVars, rules, logs, lockdown_state, lockdown_writer, budget, hist,
                   last, llm_registry, counter, sender, providers,
                   orch_lockdown_state, trace>>

\* unregister, lines 52-53 and 63-65: self.providers.remove(llm_id)
pu_remove(t) ==
    /\ pc[t] = "pu_remove"
    /\ LET id == call[t].llm_id
       IN  IF id \in DOMAIN providers
           THEN /\ providers' = MapRemove(providers, id)
                /\ call' = [call EXCEPT ![t].capabilities = providers[id].capabilities]
                /\ IF providers[id].capabilities = <<>>
                   THEN Return(t, Ok("unregister", "unit"))
                   ELSE Goto(t, "pu_retain")
           ELSE /\ UNCHANGED <<providers, call>>
                /\ Return(t, Err("unregister", "LLMNotFound", id))
    /\ UNCHANGED <<pmVars, rules, logs, lockdown_state, lockdown_writer, budget, hist,
                   last, llm_registry, counter, sender, capability_index,
                   orch_lockdown_state, trace>>

\* unregister, lines 56-62: one turn of the loop takes the id out of the entry
\* of a capability
pu_retain(t) ==
    /\ pc[t] = "pu_retain"
    /\ LET c == call[t]
           cap == c.capabilities[c.k]
       IN  /\ ~EntryRead(cap)
           /\ capability_index' = index_retain(capability_index, <<cap>>, 1, c.llm_id)
           /\ call' = [call EXCEPT ![t].k = @ + 1]
           /\ IF c.k = Len(c.capabilities)
              THEN Return(t, Ok("unregister", "unit"))
              ELSE Goto(t, "pu_retain")
    /\ UNCHANGED <<pmVars, rules, logs, lockdown_state, lockdown_writer, budget, hist,
                   last, llm_registry, counter, sender, providers,
                   orch_lockdown_state, trace>>

\* find_by_capability, lines 75 and 79-81: self.capability_index.get(capability)
pf_index(t) ==
    /\ pc[t] = "pf_index"
    /\ LET cap == call[t].capability
           ids == IF cap \in DOMAIN capability_index
                  THEN capability_index[cap] ELSE <<>>
       IN  /\ call' = [call EXCEPT ![t].ids = ids]
           /\ IF ids = <<>>
              THEN Return(t, Ok("find_by_capability", <<>>))
              ELSE Goto(t, "pf_get")
    /\ UNCHANGED <<pmVars, rules, logs, lockdown_state, lockdown_writer, budget, hist,
                   last, platformVars>>

\* find_by_capability, lines 76-78: one turn of filter_map(|id| self.get(id))
pf_get(t) ==
    /\ pc[t] = "pf_get"
    /\ LET c == call[t]
           id == c.ids[c.k]
           found == IF id \in DOMAIN providers
                    THEN Append(c.found, providers[id]) ELSE c.found
       IN  /\ call' = [call EXCEPT ![t].k = @ + 1, ![t].found = found]
           /\ IF c.k = Len(c.ids)
              THEN Return(t, Ok("find_by_capability", found))
              ELSE Goto(t, "pf_get")
    /\ UNCHANGED <<pmVars, rules, logs, lockdown_state, lockdown_writer, budget, hist,
                   last, platformVars>>

InitPoolRace ==
    /\ InitEngine
    /\ budget = MaxRaceCalls

NextPoolRace ==
    \E t \in Tasks :
        \/ \E c \in RaceCalls : pool_start(t, c)
        \/ pr_insert(t) \/ pr_push(t)
        \/ pu_remove(t) \/ pu_retain(t)
        \/ pf_index(t) \/ pf_get(t)

SpecPoolRace == InitPoolRace /\ [][NextPoolRace]_vars

\* id is held by the index entry of capability
Indexed(id, capability) ==
    /\ capability \in DOMAIN capability_index
    /\ \E k \in 1..Len(capability_index[capability]) :
          capability_index[capability][k] = id

\* C31 as claimed, in its first part: whenever the register, unregister and
\* find_by_capability calls made concurrently on one id have all returned, the
\* primary map and the capability index agree: the id is indexed under a
\* capability exactly when it is registered and declares that capability.
C31_MapsAgreeWhenQuiet ==
    (\A t \in Tasks : pc[t] = "idle")
        => \A cap \in {"Code", "Analysis"} :
              Indexed(RaceInstance.id, cap)
                  <=> /\ RaceInstance.id \in DOMAIN providers
                      /\ cap \in Declared(providers[RaceInstance.id])

(***************************************************************************)
(* Loading and unloading in the pool, one call at a time                   *)
(***************************************************************************)
\* LLMPool::get_all_loaded: the providers whose instance is loaded (collected in
\* the order the map iterates, which nothing here depends on)
get_all_loaded ==
    {providers[id] : id \in {i \in DOMAIN providers : providers[i].is_loaded}}

\* LLMPool::stats
stats ==
    LET total  == Cardinality(DOMAIN providers)
        loaded == Cardinality({i \in DOMAIN providers : providers[i].is_loaded})
    IN  [ total_providers |-> total, loaded_providers |-> loaded,
          unloaded_providers |-> total - loaded ]

\* a faulty variant: load marks the instance as loaded
load_effect_marks(llm_id) ==
    [providers EXCEPT ![llm_id] = [@ EXCEPT !.is_loaded = TRUE]]

\* load and unload, lines 105-109 and 119-121: the provider found is not written
\* to ("We can't mutate through Arc, so this is a placeholder")
load_effect(llm_id) == providers

LoadInstances ==
    { LLMInstance("llm-1", <<"Code">>, FALSE),
      LLMInstance("llm-1", <<"Code">>, TRUE),
      LLMInstance("llm-2", <<"Analysis">>, FALSE) }

\* LLMPool::load
load(llm_id) ==
    /\ IF llm_id \in DOMAIN providers
       THEN /\ providers' = load_effect(llm_id)
            /\ PoolCall([op |-> "load", id |-> llm_id, result |-> Ok("load", "unit")])
       ELSE /\ providers' = providers
            /\ PoolCall([op |-> "load", id |-> llm_id,
                         result |-> Err("load", "LLMNotFound", llm_id)])
    /\ UNCHANGED capability_index

\* LLMPool::unload
unload(llm_id) ==
    /\ IF llm_id \in DOMAIN providers
       THEN /\ providers' = load_effect(llm_id)
            /\ PoolCall([op |-> "unload", id |-> llm_id, result |-> Ok("unload", "unit")])
       ELSE /\ providers' = providers
            /\ PoolCall([op |-> "unload", id |-> llm_id,
                         result |-> Err("unload", "LLMNotFound", llm_id)])
    /\ UNCHANGED capability_index

NextPoolLoad ==
    \/ \E i \in LoadInstances : register(i)
    \/ \E id \in {"llm-1", "llm-2"} : unregister(id)
    \/ \E id \in {"llm-1", "llm-2"} : load(id)
    \/ \E id \in {"llm-1", "llm-2"} : unload(id)

SpecPoolLoad == InitPool /\ [][NextPoolLoad]_vars

\* a call of the pool returns in this step
PoolStep == Len(trace') = Len(trace) + 1

\* the maps, and with them every instance's is_loaded flag and what
\* get_all_loaded and stats return, are what they were
PoolUntouched ==
    /\ providers' = providers
    /\ capability_index' = capability_index
    /\ get_all_loaded' = get_all_loaded
    /\ stats' = stats

\* C32: load(id) and unload(id) return a not-found error (LLMNotFound) when id is
\* not registered and Ok when it is, and either way the primary map, the
\* capability index and every is_loaded flag are as before, so that
\* get_all_loaded and stats return what they returned before; unregister of an id
\* that is not registered returns the not-found error too and changes nothing.
C32_LoadUnloadChangeNothing ==
    [][PoolStep =>
          /\ last'.op \in {"load", "unload"}
                => /\ last'.result.ok <=> last'.id \in DOMAIN providers
                   /\ ~last'.result.ok => last'.result.value.kind = "LLMNotFound"
                   /\ PoolUntouched
          /\ last'.op = "unregister" /\ last'.id \notin DOMAIN providers
                => /\ ~last'.result.ok
                   /\ last'.result.value.kind = "LLMNotFound"
                   /\ PoolUntouched]_vars

\* C32 witness: load of a registered instance that is not loaded has returned Ok
\* and the instance is still not loaded; the other id, not registered, was
\* refused to unload before
C32_Witness ==
    /\ Len(trace) >= 3
    /\ last.op = "load" /\ last.result.ok
    /\ last.id \in DOMAIN providers
    /\ ~providers[last.id].is_loaded
    /\ get_all_loaded = {}
    /\ stats = [total_providers |-> 1, loaded_providers |-> 0, unloaded_providers |-> 1]
    /\ LET c == trace[Len(trace) - 1]
       IN  c.op = "unload" /\ ~c.result.ok /\ c.id # last.id

(***************************************************************************)
(* The orchestrator while locked, and run's loop after a failure           *)
(***************************************************************************)
\* handle_message has handled a message in this step
HandledStep == Len(trace') = Len(trace) + 1 /\ last'.op = "handle_message"

\* C33: while the local lockdown state of the orchestrator is Locked,
\* handle_message returns Ok for a message of any tag and dispatches nothing:
\* the router is not read, and the local lockdown state and the registry of the
\* router are what they were.
C33_LockedRejectsSilently ==
    [][HandledStep /\ orch_lockdown_state = "Locked"
          => /\ last'.result.ok
             /\ ~last'.routed
             /\ orch_lockdown_state' = "Locked"
             /\ llm_registry' = llm_registry]_vars

\* C33 witness: a locked orchestrator has been handed LockdownReleased and then
\* a delegation that names no target; both returned Ok, the router was not
\* read and the orchestrator is still Locked
C33_Witness ==
    /\ Len(trace) = 3
    /\ trace[1].message.type = "SecurityAlert"
    /\ trace[1].message.suggested_action = "Lockdown"
    /\ trace[2].message.type = "StateChange"
    /\ trace[2].message.change_type = "LockdownReleased"
    /\ trace[2].result.ok
    /\ trace[3].message.type = "LLMDelegation"
    /\ trace[3].message.to = None
    /\ trace[3].result.ok /\ ~trace[3].routed
    /\ orch_lockdown_state = "Locked"

\* run's loop is still taking messages: handle_message can be handed any of them
LoopRunning == \A m \in OrchMessages : ENABLED handle_message(m)

\* C34 as claimed: the loop of the orchestrator keeps taking messages from the
\* bus after a message whose handling failed (a delegation without a target for
\* which route_task finds no instance) and after a message of a tag it does not
\* handle: every message published later is still received and handled.
C34_LoopSurvivesFailure ==
    (trace # <<>> /\ Len(trace) < MaxHandled) => LoopRunning

\* after a message of a tag the loop does not handle, and after every message
\* handled with Ok, the loop goes on
C34_LoopSurvivesUnhandled ==
    (trace # <<>> /\ Len(trace) < MaxHandled /\ last.result.ok) => LoopRunning

\* the handling of a delegation without a target has failed and the loop has ended
C34_LoopEnded ==
    ~ ( /\ trace # <<>> /\ Len(trace) < MaxHandled
        /\ last.message.type = "LLMDelegation" /\ last.message.to = None
        /\ ~last.result.ok /\ last.result.value.kind = "LLMNotFound"
        /\ ~ENABLED NextOrchestrator )

(***************************************************************************)
(* The audit logger under concurrent callers: log builds its entry, waits  *)
(* for the write guard of the log and pushes the entry under it; get_all   *)
(* clones the log under a read guard                                       *)
(***************************************************************************)
MaxAuditCalls == 4

AuditLogCall(llm_id, approved) ==
    [op |-> "log", llm_id |-> llm_id, action |-> "Permission check", approved |-> approved]
GetAllCall == [op |-> "get_all"]

AuditCalls ==
    {AuditLogCall(a, approved) : a \in Actors, approved \in BOOLEAN} \cup {GetAllCall}

\* a caller of the logger makes a call; a call of log is noted when it is made
audit_start(t, c) ==
    /\ pc[t] = "idle"
    /\ budget > 0
    /\ budget' = budget - 1
    /\ pc' = [pc EXCEPT ![t] = IF c.op = "log" THEN "al_push" ELSE "ga_read"]
    /\ call' = [call EXCEPT ![t] = c]
    /\ ret' = [ret EXCEPT ![t] = NoRet]
    /\ hist' = IF c.op = "log"
               THEN [hist EXCEPT !.calls =
                        Append(@, AuditLogEntry(c.llm_id, c.action, None, c.approved, None))]
               ELSE hist
    /\ UNCHANGED <<platformVars, pmVars, rules, logs, lockdown_state, lockdown_writer, last>>

\* AuditLogger::log, lines 42-43: the push under the write guard
al_push(t) ==
    /\ pc[t] = "al_push"
    /\ logs' = log(call[t].llm_id, call[t].action, None, call[t].approved, None)
    /\ Return(t, Ok("log", "unit"))
    /\ UNCHANGED <<platformVars, pmVars, rules, lockdown_state, lockdown_writer, call,
                   budget, hist, last>>

\* AuditLogger::get_all: the clone under the read guard; the snapshots returned
\* are kept in the order they were taken
ga_read(t) ==
    /\ pc[t] = "ga_read"
    /\ trace' = Append(trace, [op |-> "get_all", task |-> t, entries |-> get_all])
    /\ Return(t, Ok("get_all", get_all))
    /\ UNCHANGED <<llm_registry, counter, sender, providers, capability_index,
                   orch_lockdown_state, pmVars, rules, logs, lockdown_state,
                   lockdown_writer, call, budget, hist, last>>

InitAuditRace ==
    /\ InitEngine
    /\ budget = MaxAuditCalls

NextAuditRace ==
    \E t \in Tasks :
        \/ \E c \in AuditCalls : audit_start(t, c)
        \/ al_push(t)
        \/ ga_read(t)

SpecAuditRace == InitAuditRace /\ [][NextAuditRace]_vars

\* how many times e is in s
Occurrences(s, e) == Cardinality({k \in 1..Len(s) : s[k] = e})

\* the calls of log that have not pushed yet
PendingLogs == {t \in Tasks : pc[t] = "al_push"}

\* C35: under concurrent calls of log, the entry of every call is in the log
\* exactly once (as many times as calls were made with it) when the calls have
\* returned, and never more often before; with no clear, every snapshot get_all
\* returned is a prefix of every snapshot returned later and of the log; a
\* snapshot holds whole entries of calls only.
C35_LogAppendsOnce ==
    /\ Len(logs) + Cardinality(PendingLogs) = Len(hist.calls)
    /\ \A k \in 1..Len(hist.calls) :
          /\ Occurrences(logs, hist.calls[k]) <= Occurrences(hist.calls, hist.calls[k])
          /\ PendingLogs = {}
                => Occurrences(logs, hist.calls[k]) = Occurrences(hist.calls, hist.calls[k])
    /\ \A i \in 1..Len(trace) :
          /\ StartsWith(logs, trace[i].entries)
          /\ \A j \in i..Len(trace) : StartsWith(trace[j].entries, trace[i].entries)
          /\ \A k \in 1..Len(trace[i].entries) :
                \E c \in 1..Len(hist.calls) : trace[i].entries[k] = hist.calls[c]

\* C35 witness: two calls of log were in progress at once and the one made later
\* has pushed first; a snapshot taken before them holds the one entry the log
\* had then, and the other call has still to push
C35_Witness ==
    /\ Len(trace) = 1 /\ Len(trace[1].entries) = 1
    /\ Len(logs) = 2
    /\ Len(hist.calls) = 3
    /\ logs[2] = hist.calls[3]
    /\ logs[2] # hist.calls[2]
    /\ Cardinality(PendingLogs) = 1

(***************************************************************************)
(* The load balancer under concurrent callers: a selection filters its     *)
(* list, takes a count from the shared counter with one fetch_add and      *)
(* returns the id at that count modulo the length of the list              *)
(***************************************************************************)
MaxRaceSelects == 4

SelectCall(op, llm_ids, is_local) ==
    [op |-> op, llm_ids |-> llm_ids, is_local |-> is_local, list |-> <<>>,
     count |-> 0, result |-> None]

RaceLists == {<<>>, <<"a", "b">>}

SelectCalls ==
    {SelectCall("select_round_robin", ids, {}) : ids \in RaceLists}
    \cup {SelectCall("select_least_loaded", <<"a", "b">>, {})}
    \cup {SelectCall("select_prefer_local", <<"a", "b">>, p) : p \in {{}, {"b"}}}
    \cup {SelectCall("select_prefer_local", <<>>, {})}

\* the list a call selects from: llm_ids, or for select_prefer_local the local
\* ids when there is one and the cloud ids otherwise
selected_list(c) ==
    IF c.op = "select_prefer_local"
    THEN IF local_of(c.llm_ids, c.is_local) # <<>>
         THEN local_of(c.llm_ids, c.is_local)
         ELSE cloud_of(c.llm_ids, c.is_local)
    ELSE c.llm_ids

\* a caller of the balancer makes a call
lb_start(t, c) ==
    /\ pc[t] = "idle"
    /\ budget > 0
    /\ budget' = budget - 1
    /\ pc' = [pc EXCEPT ![t] = "lb_fetch"]
    /\ call' = [call EXCEPT ![t] = [c EXCEPT !.list = selected_list(c)]]
    /\ ret' = [ret EXCEPT ![t] = NoRet]
    /\ UNCHANGED <<pmVars, rules, logs, lockdown_state, lockdown_writer, hist, last,
                   platformVars>>

\* the emptiness test and self.counter.fetch_add(1, Ordering::Relaxed); the
\* index and the id follow from the count taken
lb_fetch(t) ==
    /\ pc[t] = "lb_fetch"
    /\ LET s == select_from(call[t].list)
       IN  /\ counter' = s.counter
           /\ call' = [call EXCEPT ![t] = [@ EXCEPT !.count = counter,
                                                    !.result = s.result]]
    /\ Goto(t, "lb_pick")
    /\ UNCHANGED <<pmVars, rules, logs, lockdown_state, lockdown_writer, hist, last,
                   budget, llm_registry, sender, providers, capability_index,
                   orch_lockdown_state, trace>>

\* the call returns; what it selected from, the count it took and the id it
\* returns are kept in the order of the returns
lb_pick(t) ==
    /\ pc[t] = "lb_pick"
    /\ trace' = Append(trace, [op |-> call[t].op, list |-> call[t].list,
                               count |-> call[t].count, result |-> call[t].result])
    /\ Return(t, [op |-> call[t].op, ok |-> TRUE, value |-> call[t].result])
    /\ UNCHANGED <<pmVars, rules, logs, lockdown_state, lockdown_writer, hist, last,
                   budget, call, llm_registry, counter, sender, providers,
                   capability_index, orch_lockdown_state>>

InitBalancerRace ==
    /\ InitEngine
    /\ budget = MaxRaceSelects

NextBalancerRace ==
    \E t \in Tasks :
        \/ \E c \in SelectCalls : lb_start(t, c)
        \/ lb_fetch(t)
        \/ lb_pick(t)

SpecBalancerRace == InitBalancerRace /\ [][NextBalancerRace]_vars

\* the calls on a list that is not empty which have taken their count: those
\* that returned, and those about to
CountedReturns == {k \in 1..Len(trace) : trace[k].list # <<>>}
CountedPending == {t \in Tasks : pc[t] = "lb_pick" /\ call[t].list # <<>>}

\* C36: a selection by any of the three methods on a list that is not empty
\* advances the one counter by exactly one, and one on an empty list returns
\* none and does not advance it: the counts the calls have taken, in whatever
\* order the calls ran, are the distinct values 0 .. counter-1, one for each
\* call; and when a fresh balancer has answered k * len calls over one list of
\* len ids, every id of the list was returned exactly k times.
C36_CounterAdvancesOncePerSelection ==
    /\ Cardinality(CountedReturns) + Cardinality(CountedPending) = counter
    /\ {trace[k].count : k \in CountedReturns} \cup {call[t].count : t \in CountedPending}
          = 0..(counter - 1)
    /\ \A k \in 1..Len(trace) :
          /\ trace[k].list = <<>> => trace[k].result = None
          /\ trace[k].list # <<>>
                => trace[k].result = trace[k].list[(trace[k].count % Len(trace[k].list)) + 1]
    /\ \A ids \in RaceLists :
          ( /\ ids # <<>>
            /\ \A t \in Tasks : pc[t] = "idle"
            /\ \A k \in 1..Len(trace) : trace[k].list = ids
            /\ Len(trace) % Len(ids) = 0 )
          => \A i \in 1..Len(ids) :
                Cardinality({k \in 1..Len(trace) : trace[k].result = ids[i]})
                   = Len(trace) \div Len(ids)

\* C36 witness: four calls over a, b by all three methods have returned, each id
\* twice, and a call that took its count later returned before one that took it
\* earlier
C36_Witness ==
    /\ Len(trace) = 4
    /\ \A k \in 1..4 : trace[k].list = <<"a", "b">>
    /\ {trace[k].op : k \in 1..4}
          = {"select_round_robin", "select_least_loaded", "select_prefer_local"}
    /\ \E i, j \in 1..4 : i < j /\ trace[i].count > trace[j].count
    /\ counter = 4

(***************************************************************************)
(* Release without reset: one caller whose calls are long enough for an    *)
(* escalation, a release and the request after it.  Each call is kept with *)
(* the length of the audit log when it was made.                           *)
(***************************************************************************)
MaxRelapse == 2

RelapseCalls ==
    { CheckPermissionCall("llm-a", ReqDenied),
      ReleaseLockdownCall("token"),
      ResetFailedCountCall("llm-a"),
      TriggerLockdownCall([kind |-> "UserPanicButton"]) }

relapse_call(t) ==
    /\ t = "t1"
    /\ pc[t] = "idle"
    /\ budget > 0
    /\ \E c \in RelapseCalls :
          /\ pc' = [pc EXCEPT ![t] = EntryPoint(c.op)]
          /\ call' = [call EXCEPT ![t] = c]
          /\ trace' = Append(trace, [call |-> c, at |-> Len(logs)])
    /\ budget' = budget - 1
    /\ ret' = [ret EXCEPT ![t] = NoRet]
    /\ UNCHANGED <<llm_registry, counter, sender, providers, capability_index,
                   orch_lockdown_state, pmVars, rules, logs, lockdown_state,
                   lockdown_writer, hist, last>>

InitRelapse ==
    /\ InitEngine
    /\ budget = FailThreshold + MaxRelapse

NextRelapse ==
    \E t \in Tasks :
        \/ relapse_call(t)
        \/ cp_lock(t) \/ cp_check(t) \/ cp_audit(t) \/ cp_count(t)
        \/ tl_lock(t) \/ tl_audit(t)
        \/ rl_lock(t) \/ rl_audit(t)
        \/ rf_run(t)

SpecRelapse == InitRelapse /\ [][NextRelapse]_vars

\* a step of trigger_lockdown or release_lockdown
LockdownStep ==
    \E t \in Tasks :
        /\ pc[t] \in {"tl_lock", "tl_audit", "rl_lock", "rl_audit"}
        /\ pc'[t] # pc[t]

\* the i-th call has returned
Done(i) == i < Len(trace) \/ \A t \in Tasks : pc[t] = "idle"

\* the i-th call was a request that was refused by policy and escalated: its
\* denial and the lockdown for too many failed requests follow in the audit log
Escalated(i) ==
    LET k == trace[i].at
    IN  /\ trace[i].call.op = "check_permission"
        /\ Len(logs) >= k + 2
        /\ logs[k + 1].action = "Permission request"
        /\ logs[k + 1].llm_id = trace[i].call.llm_id
        /\ ~logs[k + 1].approved
        /\ logs[k + 2].action = "Lockdown triggered"
        /\ logs[k + 2].details.reason.kind = "MultipleFailedRequests"

\* the lockdown the i-th call caused was released by call n - 1, with no release
\* and no reset of the actor's counter in between, and after it the actor has
\* made call n, a request that policy denies
RelapseCase(i, n) ==
    /\ i < n - 1
    /\ Escalated(i)
    /\ trace[n - 1].call = ReleaseLockdownCall("token")
    /\ \A j \in (i + 1)..(n - 2) :
          trace[j].call.op \notin {"release_lockdown", "reset_failed_count"}
    /\ trace[n].call = CheckPermissionCall(trace[i].call.llm_id, ReqDenied)
    /\ Done(n)

\* C37: no step of trigger_lockdown or release_lockdown changes a failure
\* counter; so when a lockdown that an actor caused by reaching five denials
\* has been released and no reset_failed_count was called, the next denied
\* request of that actor escalates again and leaves the engine Locked.
C37_ReleaseKeepsCounters ==
    /\ [][LockdownStep => failed_requests' = failed_requests]_vars
    /\ [](\A i, n \in 1..Len(trace) :
             RelapseCase(i, n)
                => /\ Escalated(n)
                   /\ n = Len(trace) => lockdown_state = "Locked")

\* C37 witness: five denials of llm-a, the fifth escalating, a release, and a
\* sixth denial that has escalated again with a count of six
C37_Witness ==
    /\ Len(trace) = 7
    /\ RelapseCase(5, 7)
    /\ Escalated(7)
    /\ lockdown_state = "Locked"
    /\ get_failed_count("llm-a") = 6
    /\ logs[Len(logs)].action = "Lockdown triggered"
    /\ logs[Len(logs)].details.reason.count = 6

(***************************************************************************)
(* The lockdown state and the audit log                                    *)
(***************************************************************************)
\* the positions of the entries of trigger_lockdown and release_lockdown in the log
LockdownEntries ==
    {k \in 1..Len(logs) : logs[k].action \in {"Lockdown triggered", "Lockdown released"}}

\* the most recent of them
LatestLockdownEntry ==
    logs[CHOOSE k \in LockdownEntries : \A j \in LockdownEntries : j <= k]

\* a call of trigger_lockdown or release_lockdown is in progress, a
\* check_permission that is escalating included
LockdownCallInProgress ==
    \E t \in Tasks : pc[t] \in {"tl_lock", "tl_audit", "rl_lock", "rl_audit"}

\* C38: in every state where no trigger_lockdown and no release_lockdown is in
\* progress and the audit log was not cleared, the engine is Locked exactly when
\* the most recent of the Lockdown triggered and Lockdown released entries of
\* the log is Lockdown triggered, and it is Normal when the log has no such
\* entry, whatever the interleaving of the concurrent calls was.
C38_StateFollowsLatestEntry ==
    (~LockdownCallInProgress /\ ~hist.cleared)
    => IF LockdownEntries = {}
       THEN lockdown_state = "Normal"
       ELSE lockdown_state = "Locked"
               <=> LatestLockdownEntry.action = "Lockdown triggered"

\* C38 witness: a trigger and a release have contended for the write guard, the
\* release wrote last, both have returned; the log ends with Lockdown triggered
\* followed by Lockdown released and the engine is Normal
C38_Witness ==
    /\ ~LockdownCallInProgress /\ ~hist.cleared
    /\ hist.race
    /\ \A t \in Tasks : pc[t] = "idle"
    /\ Cardinality(LockdownEntries) >= 2
    /\ LatestLockdownEntry.action = "Lockdown released"
    /\ \E k \in LockdownEntries : logs[k].action = "Lockdown triggered"
    /\ lockdown_state = "Normal"

(***************************************************************************)
(* The locks of the engine.  The lockdown state, global_scope, llm_scopes, *)
(* failed_requests and the audit log are each behind a lock of their own.  *)
(* A guard is held across an await in two places: trigger_lockdown and     *)
(* release_lockdown hold the write guard of the lockdown state while they  *)
(* append to the audit log (lockdown_writer), and get_scope holds the read *)
(* guard of llm_scopes while it waits for the read guard of global_scope   *)
(* (a task at cp_global).  Every other guard is taken and dropped within   *)
(* one step.  The permission check of check_permission is taken here step  *)
(* by step: get_scope, then the decision and track_failed_request.         *)
(***************************************************************************)
MaxLiveCalls == 3

SetGlobalScopeCall(scope) == [op |-> "set_global_scope", scope |-> scope]
SetLlmScopeCall(llm_id, scope) ==
    [op |-> "set_llm_scope", llm_id |-> llm_id, scope |-> scope]

LiveCalls ==
    { CheckPermissionCall("llm-a", ReqDenied),
      CheckPermissionCall("llm-b", ReqGranted),
      AnalyzeCommandCall("ls -la"),
      TriggerLockdownCall([kind |-> "UserPanicButton"]),
      ReleaseLockdownCall("token"),
      LockdownStateCall,
      ResetFailedCountCall("llm-a"),
      SetGlobalScopeCall(ScopeOpen),
      SetLlmScopeCall("llm-a", ScopeNarrow),
      GetAllCall }

\* a caller of the engine, of its permission manager or of its audit logger
\* makes a call
live_start(t, c) ==
    /\ pc[t] = "idle"
    /\ budget > 0
    /\ budget' = budget - 1
    /\ pc' = [pc EXCEPT ![t] = CASE c.op = "set_global_scope" -> "sg_run"
                                 [] c.op = "set_llm_scope" -> "sl_run"
                                 [] c.op = "get_all" -> "ga_read"
                                 [] OTHER -> EntryPoint(c.op)]
    /\ call' = [call EXCEPT ![t] = c]
    /\ ret' = [ret EXCEPT ![t] = NoRet]
    /\ hist' = IF c.op = "release_lockdown"
               THEN [hist EXCEPT !.trig_done = FALSE] ELSE hist
    /\ UNCHANGED <<platformVars, pmVars, rules, logs, lockdown_state, lockdown_writer, last>>

\* task t holds a read guard of llm_scopes across an await
HoldsScopesRead(t) == pc[t] = "cp_global"

\* self.llm_scopes.write().await is granted: no read guard is held
scopes_write_free == \A u \in Tasks : ~HoldsScopesRead(u)

\* a faulty variant: the read of global_scope waits for the callers that wait
\* to write llm_scopes
global_read_free_behind_writers(t) == \A u \in Tasks \ {t} : pc[u] # "sl_run"

\* self.global_scope.read().await is granted: set_global_scope, the one writer,
\* takes and drops its guard within one step
global_read_free(t) == TRUE

\* the call of task t with the scope get_scope returned to it
WithScope(t, scope) ==
    [ op |-> call[t].op, llm_id |-> call[t].llm_id, permission |-> call[t].permission,
      explanation |-> call[t].explanation, granted |-> call[t].granted,
      failed_count |-> call[t].failed_count, scope |-> scope ]

\* get_scope, lines 77-80: the read guard of llm_scopes; the scope of the actor
\* is cloned when there is one
cp_scope(t) ==
    /\ pc[t] = "cp_check"
    /\ IF call[t].llm_id \in DOMAIN llm_scopes
       THEN /\ call' = [call EXCEPT ![t] = WithScope(t, llm_scopes[call[t].llm_id])]
            /\ Goto(t, "cp_track")
       ELSE /\ call' = call
            /\ Goto(t, "cp_global")
    /\ UNCHANGED <<platformVars, pmVars, rules, logs, lockdown_state, lockdown_writer,
                   budget, hist, last>>

\* get_scope, lines 81-84: the read guard of global_scope, taken while the one
\* of llm_scopes is held; both are dropped as get_scope returns
cp_global(t) ==
    /\ pc[t] = "cp_global"
    /\ global_read_free(t)
    /\ call' = [call EXCEPT ![t] = WithScope(t, global_scope)]
    /\ Goto(t, "cp_track")
    /\ UNCHANGED <<platformVars, pmVars, rules, logs, lockdown_state, lockdown_writer,
                   budget, hist, last>>

\* PermissionManager::check_permission, lines 43-72: the decision for the scope
\* read, and track_failed_request for a denial
cp_track(t) ==
    /\ pc[t] = "cp_track"
    /\ LET c == call[t]
           g == granted_by(c.scope, c.permission)
       IN  /\ failed_requests' = pm_failed_after(c.llm_id, g)
           /\ call' = [call EXCEPT ![t].granted = g]
           /\ hist' = IF g THEN hist
                      ELSE [hist EXCEPT !.denials[c.llm_id] = @ + 1]
    /\ Goto(t, "cp_audit")
    /\ UNCHANGED <<platformVars, global_scope, llm_scopes, rules, logs, lockdown_state,
                   lockdown_writer, budget, last>>

\* PermissionManager::set_global_scope
sg_run(t) ==
    /\ pc[t] = "sg_run"
    /\ global_scope' = call[t].scope
    /\ Return(t, Ok("set_global_scope", "unit"))
    /\ UNCHANGED <<platformVars, llm_scopes, failed_requests, rules, logs, lockdown_state,
                   lockdown_writer, call, budget, hist, last>>

\* PermissionManager::set_llm_scope
sl_run(t) ==
    /\ pc[t] = "sl_run"
    /\ scopes_write_free
    /\ llm_scopes' = MapPut(llm_scopes, call[t].llm_id, call[t].scope)
    /\ Return(t, Ok("set_llm_scope", "unit"))
    /\ UNCHANGED <<platformVars, global_scope, failed_requests, rules, logs, lockdown_state,
                   lockdown_writer, call, budget, hist, last>>

\* the audit entry of a request of llm-a that policy denied
DeniedEntry ==
    AuditLogEntry("llm-a", "Permission request",
                  [permission |-> ReqDenied, explanation |-> "why"], FALSE,
                  "Permission denied by policy")

\* the engine after four requests of llm-a were denied, one after another
AfterFourDenials ==
    /\ failed_requests = MapPut(EmptyMap, "llm-a", FailThreshold - 1)
    /\ logs = [k \in 1..(FailThreshold - 1) |-> DeniedEntry]
    /\ hist = [NoHistory EXCEPT !.denials["llm-a"] = FailThreshold - 1]
    /\ global_scope = DefaultScope
    /\ llm_scopes = EmptyMap
    /\ rules = rule_names(default_rules)
    /\ lockdown_state = "Normal"
    /\ lockdown_writer = "none"
    /\ \A t \in Tasks : pc[t] = "idle"

InitLive ==
    /\ pc = [t \in Tasks |-> "idle"]
    /\ AfterFourDenials
    /\ call = [t \in Tasks |-> NoCall]
    /\ ret = [t \in Tasks |-> NoRet]
    /\ last = NoRet
    /\ InitPlatform
    /\ budget = MaxLiveCalls

\* a step of the call task t is running
LiveStep(t) ==
    \/ cp_lock(t) \/ cp_scope(t) \/ cp_global(t) \/ cp_track(t)
    \/ cp_audit(t) \/ cp_count(t)
    \/ tl_lock(t) \/ tl_audit(t)
    \/ rl_lock(t) \/ rl_audit(t)
    \/ ac_run(t) \/ ls_read(t) \/ rf_run(t)
    \/ sg_run(t) \/ sl_run(t) \/ ga_read(t)

NextLive ==
    \E t \in Tasks :
        \/ \E c \in LiveCalls : live_start(t, c)
        \/ LiveStep(t)

SpecLive == InitLive /\ [][NextLive]_vars

\* the runtime runs every task that can take a step
FairLive == SpecLive /\ \A t \in Tasks : WF_vars(LiveStep(t))

\* C39: under any interleaving of concurrent calls of check_permission,
\* analyze_command, trigger_lockdown, release_lockdown, lockdown_state,
\* reset_failed_count, set_global_scope, set_llm_scope and get_all, and with
\* every task that can run being run, every call that was made returns: no
\* two calls wait for a lock the other holds.
C39_EveryCallReturns ==
    \A t \in Tasks : (pc[t] # "idle") ~> (pc[t] = "idle")

\* a call that has not returned can take a step, or waits for a guard whose
\* holder can
C39_NoDeadlock ==
    (\E t \in Tasks : pc[t] # "idle") => \E t \in Tasks : ENABLED LiveStep(t)

\* C39 witness: a check_permission that escalated holds the write guard of the
\* lockdown state and waits for the audit log, while the other task waits for
\* that guard to release the lockdown
C39_Witness ==
    /\ lockdown_writer = "t1"
    /\ call["t1"].op = "check_permission"
    /\ pc["t1"] = "tl_audit"
    /\ pc["t2"] = "rl_lock"
    /\ ~ENABLED LiveStep("t2")

\* a set_llm_scope waits for a get_scope that holds the read guard of llm_scopes
\* and is about to read global_scope
C39_WriterWaitsForReader ==
    ~ (pc["t1"] = "cp_global" /\ pc["t2"] = "sl_run" /\ ~ENABLED LiveStep("t2"))

(***************************************************************************)
(* Denials spread over the actors: two tasks whose requests, of two        *)
(* actors, are the only calls made                                         *)
(***************************************************************************)
SpreadCalls ==
    { CheckPermissionCall("llm-a", ReqDenied),
      CheckPermissionCall("llm-b", ReqDenied),
      CheckPermissionCall("llm-a", ReqGranted) }

spread_call(t) == \E c \in SpreadCalls : StartCall(t, c)

NextSpread ==
    \E t \in Tasks :
        \/ spread_call(t)
        \/ cp_lock(t) \/ cp_check(t) \/ cp_audit(t) \/ cp_count(t)
        \/ tl_lock(t) \/ tl_audit(t)

SpecSpread == InitEscalation /\ [][NextSpread]_vars

\* a check_permission of task t decides to escalate in this step
Escalates(t) == pc[t] = "cp_count" /\ pc'[t] = "tl_lock"

\* C40: a check_permission escalates, and so moves the engine into Locked, only
\* for a request that was denied and only when the counter of the actor of
\* that request is at least five as the call reads it after its denial was
\* counted; while the counters of all actors are below five, however many
\* denials there were in all, the engine is Normal and no call is escalating;
\* a granted request returns without a lockdown.
C40_OwnCounterLocks ==
    /\ [][\A t \in Tasks :
             /\ Escalates(t)
                   => /\ ~call[t].granted
                      /\ FailedCountIn(failed_requests, call[t].llm_id) >= FailThreshold
                      /\ call'[t].failed_count
                            = FailedCountIn(failed_requests, call[t].llm_id)
             /\ (lockdown_state # "Locked" /\ lockdown_state' = "Locked"
                    /\ pc[t] = "tl_lock" /\ pc'[t] # pc[t])
                   => /\ call[t].op = "check_permission" /\ ~call[t].granted
                      /\ call[t].failed_count >= FailThreshold]_vars
    /\ []((\A a \in Actors : FailedCountIn(failed_requests, a) < FailThreshold)
             => /\ lockdown_state = "Normal"
                /\ \A t \in Tasks : pc[t] \notin {"tl_lock", "tl_audit"})
    /\ [](\A t \in Tasks :
             (pc[t] \in {"tl_lock", "tl_audit"}) => ~call[t].granted)

\* C40 witness: six requests were denied, four of llm-a and two of llm-b, all
\* calls have returned, and the engine is Normal
C40_Witness ==
    /\ \A t \in Tasks : pc[t] = "idle"
    /\ budget = 0
    /\ FailedCountIn(failed_requests, "llm-a") = FailThreshold - 1
    /\ FailedCountIn(failed_requests, "llm-b") = 2
    /\ lockdown_state = "Normal"

\* a call escalates on a count that another call's denial completed: the task
\* whose denial was the actor's fourth reads five
C40_ReadsLaterCount ==
    ~ \E t \in Tasks :
         /\ pc[t] = "tl_lock"
         /\ call[t].failed_count = FailThreshold
         /\ \E u \in Tasks \ {t} : pc[u] = "cp_count" /\ call[u].llm_id = call[t].llm_id

=============================================================================
